---------------------------- MODULE Spec2Model ----------------------------
(***************************************************************************)
(* A model of workerns, a DNS-over-HTTPS forwarding resolver:              *)
(*   trie_map.rs  byte trie with longest-prefix lookup                     *)
(*   override.rs  exact / blocklist / wildcard override resolver           *)
(*   cache.rs     per-question TTL cache on top of a key-value store       *)
(*   client.rs    local answering, upstream query, retry                   *)
(*   server.rs    request validation and response encoding                 *)
(*                                                                         *)
(* Strings the code inspects character by character (domain names,         *)
(* override keys, cache keys) are sequences of one-character strings.      *)
(* Option<T> is a sequence of length 0 (None) or 1 (Some).                 *)
(* Result<T, String> is [ok |-> TRUE, val |-> v] or [ok |-> FALSE,         *)
(* err |-> message].                                                       *)
(***************************************************************************)
EXTENDS Integers, Sequences, FiniteSets, TLC

\* ------------------------------------------------------------------------
\* Bounds of the model
\* ------------------------------------------------------------------------

\* Number of put_prefix calls made on the TrieMap exercised on its own.
MaxPuts == 3

\* The clock (seconds) runs from 0 to MaxTime.
MaxTime == 1

\* The configured retry count is drawn from 0..MaxRetries.
MaxRetries == 2

\* Number of requests received in one behaviour.
MaxRequests == 2

\* ------------------------------------------------------------------------
\* Generic helpers
\* ------------------------------------------------------------------------

None == << >>

Some(x) == << x >>

IsSome(o) == Len(o) > 0

Unwrap(o) == o[1]

Ok(v) == [ok |-> TRUE, val |-> v]

Err(e) == [ok |-> FALSE, err |-> e]

Max(a, b) == IF a >= b THEN a ELSE b

Reverse(s) == [i \in 1..Len(s) |-> s[Len(s) + 1 - i]]

IsPrefix(p, s) == Len(p) <= Len(s) /\ SubSeq(s, 1, Len(p)) = p

IsSuffix(p, s) == Len(p) <= Len(s) /\ SubSeq(s, Len(s) - Len(p) + 1, Len(s)) = p

RECURSIVE Flatten(_)
Flatten(ss) == IF ss = << >> THEN << >> ELSE Head(ss) \o Flatten(Tail(ss))

Range(s) == {s[i] : i \in 1..Len(s)}

\* ------------------------------------------------------------------------
\* trie_map.rs
\* ------------------------------------------------------------------------
\* The trie is an arena: a sequence of nodes, node 1 being the root; a
\* node's children are the indices of its child nodes in push order.

TrieMap_new ==
    << [label |-> 0, value |-> None, children |-> << >>] >>

\* No child ever found.
find_child_none(nodes, idx, label) == None

\* Index (into children) of the first child carrying the label.
find_child(nodes, idx, label) ==
    LET ch == nodes[idx].children
        hits == {i \in 1..Len(ch) : nodes[ch[i]].label = label}
    IN  IF hits = {} THEN None
        ELSE Some(CHOOSE i \in hits : \A j \in hits : i <= j)

RECURSIVE traverse_trie_mut(_, _, _)
traverse_trie_mut(nodes, idx, prefix) ==
    IF Len(prefix) = 0 THEN << idx, prefix >>
    ELSE LET c == find_child(nodes, idx, prefix[1])
         IN  IF IsSome(c)
             THEN traverse_trie_mut(nodes, nodes[idx].children[Unwrap(c)], Tail(prefix))
             ELSE << idx, prefix >>

\* The first value met on the path kept, not the last.
RECURSIVE traverse_trie_for_value_first(_, _, _, _)
traverse_trie_for_value_first(nodes, idx, prefix, last_value) ==
    LET lv == IF IsSome(last_value) THEN last_value ELSE nodes[idx].value
    IN  IF Len(prefix) = 0 THEN << idx, lv, prefix >>
        ELSE LET c == find_child(nodes, idx, prefix[1])
             IN  IF IsSome(c)
                 THEN traverse_trie_for_value_first(nodes, nodes[idx].children[Unwrap(c)],
                                                    Tail(prefix), lv)
                 ELSE << idx, lv, prefix >>

RECURSIVE traverse_trie_for_value(_, _, _, _)
traverse_trie_for_value(nodes, idx, prefix, last_value) ==
    LET lv == IF IsSome(nodes[idx].value) THEN nodes[idx].value ELSE last_value
    IN  IF Len(prefix) = 0 THEN << idx, lv, prefix >>
        ELSE LET c == find_child(nodes, idx, prefix[1])
             IN  IF IsSome(c)
                 THEN traverse_trie_for_value(nodes, nodes[idx].children[Unwrap(c)],
                                              Tail(prefix), lv)
                 ELSE << idx, lv, prefix >>

\* The loop of put_prefix: one new node per remaining byte, each pushed to
\* the children of the node before it; yields the arena and the last node.
RECURSIVE put_prefix_chain(_, _, _)
put_prefix_chain(nodes, idx, remaining) ==
    IF Len(remaining) = 0 THEN << nodes, idx >>
    ELSE LET new_idx == Len(nodes) + 1
             new_node == [label |-> remaining[1], value |-> None, children |-> << >>]
             pushed == Append([nodes EXCEPT ![idx].children = Append(@, new_idx)], new_node)
         IN  put_prefix_chain(pushed, new_idx, Tail(remaining))

put_prefix(nodes, prefix, value) ==
    LET found == traverse_trie_mut(nodes, 1, prefix)
        grown == put_prefix_chain(nodes, found[1], found[2])
    IN  [grown[1] EXCEPT ![grown[2]].value = Some(value)]

get_prefix(nodes, prefix) ==
    traverse_trie_for_value(nodes, 1, prefix, None)[2]

\* ------------------------------------------------------------------------
\* Domain names, questions, records
\* ------------------------------------------------------------------------
\* A Dname is its sequence of labels (the root label left out), a label a
\* sequence of characters.

RECURSIVE dname_to_string(_)
\* Display of Dname: the labels joined by dots, no trailing dot, the
\* characters as they are (no case folding).
dname_to_string(name) ==
    IF Len(name) = 0 THEN << >>
    ELSE IF Len(name) = 1 THEN name[1]
    ELSE name[1] \o << "." >> \o dname_to_string(Tail(name))

Question_new(qname, qtype, qclass) ==
    [qname |-> qname, qtype |-> qtype, qclass |-> qclass]

\* Record<Dname, UnknownRecordData>: the record type is that of its data.
Record_new(owner, class, ttl, rtype, data) ==
    [owner |-> owner, class |-> class, ttl |-> ttl, rtype |-> rtype, data |-> data]

\* ------------------------------------------------------------------------
\* override.rs
\* ------------------------------------------------------------------------

\* Text is a sequence of characters, each a one-character string; a
\* character that has no printable ASCII form, and the quote, the
\* backslash and the backtick, are written by their code point, as in
\* "U+00A0".

DecDigits == << "0", "1", "2", "3", "4", "5", "6", "7", "8", "9" >>

HexLower == << "a", "b", "c", "d", "e", "f" >>

HexUpper == << "A", "B", "C", "D", "E", "F" >>

\* char::to_digit(radix) for radix 10 and 16.
to_digit(c, radix) ==
    IF \E i \in 1..10 : DecDigits[i] = c
    THEN Some((CHOOSE i \in 1..10 : DecDigits[i] = c) - 1)
    ELSE IF radix = 16 /\ \E i \in 1..6 : HexLower[i] = c \/ HexUpper[i] = c
    THEN Some((CHOOSE i \in 1..6 : HexLower[i] = c \/ HexUpper[i] = c) + 9)
    ELSE None

\* The number of digits of the radix that stand at pos.
RECURSIVE digit_run(_, _, _)
digit_run(s, pos, radix) ==
    IF pos <= Len(s) /\ IsSome(to_digit(s[pos], radix))
    THEN 1 + digit_run(s, pos + 1, radix)
    ELSE 0

\* The value of the n digits at pos, None once it passes max_value (the
\* checked_mul and checked_add of read_number on a u8 or a u16).
RECURSIVE digits_value(_, _, _, _, _, _)
digits_value(s, pos, n, radix, max_value, acc) ==
    IF n = 0 THEN Some(acc)
    ELSE LET next == acc * radix + Unwrap(to_digit(s[pos], radix))
         IN  IF next > max_value THEN None
             ELSE digits_value(s, pos + 1, n - 1, radix, max_value, next)

\* Parser::read_number of core::net: every digit at pos is read; no digit,
\* more than max_digits digits, a value that overflows, or a zero before
\* further digits where that is not allowed, is a failure.  A success is
\* << value, position after it >>.  n is the number of digits read and v
\* their value.
read_number_value(s, pos, n, allow_zero_prefix, v) ==
    IF ~IsSome(v) THEN None
    ELSE IF ~allow_zero_prefix /\ s[pos] = "0" /\ n > 1 THEN None
    ELSE Some(<< Unwrap(v), pos + n >>)

read_number_digits(s, pos, n, radix, max_digits, allow_zero_prefix, max_value) ==
    IF n = 0 \/ n > max_digits THEN None
    ELSE read_number_value(s, pos, n, allow_zero_prefix,
                           digits_value(s, pos, n, radix, max_value, 0))

read_number(s, pos, radix, max_digits, allow_zero_prefix, max_value) ==
    read_number_digits(s, pos, digit_run(s, pos, radix), radix, max_digits,
                       allow_zero_prefix, max_value)

\* Parser::read_given_char: the position after the character, if it
\* stands at pos.
read_given_char(s, pos, c) ==
    IF pos <= Len(s) /\ s[pos] = c THEN Some(pos + 1) ELSE None

\* Parser::read_separator: from the second item on the separator is read
\* before the item.
read_separator(s, pos, c, index) ==
    IF index > 0 THEN read_given_char(s, pos, c) ELSE Some(pos)

\* Parser::read_ipv4_addr: four decimal numbers of a u8 separated by dots;
\* sep is the separator read before the number i + 1, num that number.
RECURSIVE read_ipv4_groups(_, _, _, _)
RECURSIVE read_ipv4_number(_, _, _, _)
RECURSIVE read_ipv4_next(_, _, _, _)
read_ipv4_next(s, num, i, octets) ==
    IF ~IsSome(num) THEN None
    ELSE read_ipv4_groups(s, Unwrap(num)[2], i + 1, Append(octets, Unwrap(num)[1]))

read_ipv4_number(s, sep, i, octets) ==
    IF ~IsSome(sep) THEN None
    ELSE read_ipv4_next(s, read_number(s, Unwrap(sep), 10, 3, FALSE, 255), i, octets)

read_ipv4_groups(s, pos, i, octets) ==
    IF i = 4 THEN Some(<< octets, pos >>)
    ELSE read_ipv4_number(s, read_separator(s, pos, ".", i), i, octets)

read_ipv4_addr(s, pos) == read_ipv4_groups(s, pos, 0, << >>)

\* read_groups of Parser::read_ipv6_addr: up to limit groups of at most
\* four hexadecimal digits separated by colons, the last two of which may
\* be written as an IPv4 address.  Yields << groups read, position,
\* whether an IPv4 address ended them >>; a separator or a group that
\* cannot be read ends the groups at the position before it.
RECURSIVE read_groups(_, _, _, _, _)
RECURSIVE read_groups_ipv4(_, _, _, _, _, _, _)
RECURSIVE read_groups_group(_, _, _, _, _, _)
read_groups_group(s, pos, group, i, limit, groups) ==
    IF ~IsSome(group) THEN << groups, pos, FALSE >>
    ELSE read_groups(s, Unwrap(group)[2], i + 1, limit,
                     Append(groups, Unwrap(group)[1]))

read_groups_ipv4(s, pos, sep, ipv4, i, limit, groups) ==
    IF IsSome(ipv4)
    THEN << groups \o << Unwrap(ipv4)[1][1] * 256 + Unwrap(ipv4)[1][2],
                         Unwrap(ipv4)[1][3] * 256 + Unwrap(ipv4)[1][4] >>,
            Unwrap(ipv4)[2], TRUE >>
    ELSE IF ~IsSome(sep) THEN << groups, pos, FALSE >>
    ELSE read_groups_group(s, pos, read_number(s, Unwrap(sep), 16, 4, TRUE, 65535),
                           i, limit, groups)

read_groups_sep(s, pos, sep, i, limit, groups) ==
    read_groups_ipv4(s, pos, sep,
                     IF i < limit - 1 /\ IsSome(sep)
                     THEN read_ipv4_addr(s, Unwrap(sep)) ELSE None,
                     i, limit, groups)

read_groups(s, pos, i, limit, groups) ==
    IF i >= limit THEN << groups, pos, FALSE >>
    ELSE read_groups_sep(s, pos, read_separator(s, pos, ":", i), i, limit, groups)

\* Parser::read_ipv6_addr: eight groups, or a head and a tail around one
\* "::" that stands for at least one group of zeroes.
read_ipv6_concat(head, tail) ==
    Some(<< head[1] \o [k \in 1..(8 - Len(head[1]) - Len(tail[1])) |-> 0] \o tail[1],
            tail[2] >>)

read_ipv6_tail(s, head, colons) ==
    IF ~IsSome(colons) THEN None
    ELSE read_ipv6_concat(head, read_groups(s, Unwrap(colons), 0,
                                            8 - (Len(head[1]) + 1), << >>))

read_ipv6_colon(s, head, colon) ==
    read_ipv6_tail(s, head,
                   IF IsSome(colon) THEN read_given_char(s, Unwrap(colon), ":")
                   ELSE None)

read_ipv6_head(s, head) ==
    IF Len(head[1]) = 8 THEN Some(<< head[1], head[2] >>)
    ELSE IF head[3] THEN None
    ELSE read_ipv6_colon(s, head, read_given_char(s, head[2], ":"))

read_ipv6_addr(s, pos) == read_ipv6_head(s, read_groups(s, pos, 0, 8, << >>))

\* The sixteen octets of eight groups.
groups_to_octets(groups) ==
    [k \in 1..16 |-> IF k % 2 = 1 THEN groups[(k + 1) \div 2] \div 256
                     ELSE groups[k \div 2] % 256]

\* str::parse::<IpAddr>(): an IPv4 address or else an IPv6 address, which
\* must be the whole of the text.
parse_IpAddr_v6(v, v6) ==
    IF IsSome(v6) /\ Unwrap(v6)[2] = Len(v) + 1
    THEN Ok([family |-> "V6", octets |-> groups_to_octets(Unwrap(v6)[1])])
    ELSE Err("invalid IP address syntax")

parse_IpAddr_v4(v, v4) ==
    IF IsSome(v4)
    THEN IF Unwrap(v4)[2] = Len(v) + 1
         THEN Ok([family |-> "V4", octets |-> Unwrap(v4)[1]])
         ELSE Err("invalid IP address syntax")
    ELSE parse_IpAddr_v6(v, read_ipv6_addr(v, 1))

parse_IpAddr(v) == parse_IpAddr_v4(v, read_ipv4_addr(v, 1))

Ipv4Addr_UNSPECIFIED == [family |-> "V4", octets |-> << 0, 0, 0, 0 >>]

starts_with(s, p) == IsPrefix(p, s)

\* The characters with the Unicode property White_Space, which char::
\* is_whitespace tests and str::trim strips.
WhiteSpace ==
    { "\t", "\n", "U+000B", "\f", "\r", " ", "U+0085", "U+00A0", "U+1680",
      "U+2000", "U+2001", "U+2002", "U+2003", "U+2004", "U+2005", "U+2006",
      "U+2007", "U+2008", "U+2009", "U+200A", "U+2028", "U+2029", "U+202F",
      "U+205F", "U+3000" }

RECURSIVE trim_start(_)
trim_start(s) == IF Len(s) > 0 /\ s[1] \in WhiteSpace THEN trim_start(Tail(s)) ELSE s

trim(s) == Reverse(trim_start(Reverse(trim_start(s))))

\* str::lines(): the text split at every "\n", a "\r" before the "\n"
\* dropped with it; what follows the last "\n" is a line when it is not
\* empty.
RECURSIVE lines_from(_, _)
lines_from(text, line) ==
    IF Len(text) = 0 THEN IF Len(line) = 0 THEN << >> ELSE << line >>
    ELSE IF Head(text) = "\n"
    THEN << IF Len(line) > 0 /\ line[Len(line)] = "\r"
            THEN SubSeq(line, 1, Len(line) - 1) ELSE line >>
         \o lines_from(Tail(text), << >>)
    ELSE lines_from(Tail(text), Append(line, Head(text)))

lines(text) == lines_from(text, << >>)

\* The loop of parse_blocklist_file over the lines it is given.
RECURSIVE parse_blocklist_lines(_)
parse_blocklist_lines(ls) ==
    IF Len(ls) = 0 THEN {}
    ELSE LET line == Head(ls)
             rest == parse_blocklist_lines(Tail(ls))
         IN  IF Len(line) = 0 THEN rest
             ELSE IF starts_with(line, << "#" >>) THEN rest
             ELSE {trim(line)} \cup rest

\* parse_blocklist_file on the text of blocklist.txt.
parse_blocklist_file(text) == parse_blocklist_lines(lines(text))

\* The wildcard's star dropped and its dot with it.
suffix_key_no_dot(k) == Reverse(Tail(Tail(k)))

\* Line 62 of build_match_tables: the trie key of a wildcard entry, the
\* entry without its star, reversed.
suffix_key(k) == Reverse(Tail(k))

\* The loop of build_match_tables over the entries in iteration order;
\* tables is << simple, suffix >>, simple a set of << key, addr >> pairs
\* with one pair per key.
RECURSIVE build_match_tables_loop(_, _)
build_match_tables_loop(entries, tables) ==
    IF Len(entries) = 0 THEN tables
    ELSE LET k == Head(entries)[1]
             v == Head(entries)[2]
             parsed == parse_IpAddr(v)
             next ==
                 IF parsed.ok
                 THEN IF starts_with(k, << "*", "." >>)
                      THEN << tables[1],
                              put_prefix(tables[2], suffix_key(k), parsed.val) >>
                      ELSE << {e \in tables[1] : e[1] # k} \cup {<< k, parsed.val >>},
                              tables[2] >>
                 ELSE tables
         IN  build_match_tables_loop(Tail(entries), next)

build_match_tables(entries) ==
    build_match_tables_loop(entries, << {}, TrieMap_new >>)

OverrideResolver_new(entries, override_ttl, blocklist_text) ==
    LET tables == build_match_tables(entries)
    IN  [simple_matches |-> tables[1],
         suffix_matches |-> tables[2],
         override_ttl   |-> override_ttl,
         block_list     |-> parse_blocklist_file(blocklist_text)]

HashMap_get(map, key) ==
    IF \E e \in map : e[1] = key
    THEN Some((CHOOSE e \in map : e[1] = key)[2])
    ELSE None

\* The record type taken from the question, not from the address.
respond_with_addr_qtype(resolver, question, addr) ==
    Some(Record_new(question.qname, question.qclass, resolver.override_ttl,
                    question.qtype, addr.octets))

respond_with_addr(resolver, question, addr) ==
    LET rtype == IF addr.family = "V4" THEN "A" ELSE "AAAA"
    IN  Some(Record_new(question.qname, question.qclass, resolver.override_ttl,
                        rtype, addr.octets))

\* The match on the qtype letting every type through.
HandledQtypes_any == {"A", "A6", "AAAA", "CNAME", "ANY", "TXT", "MX", "NS", "PTR"}

\* Lines 78-83 of try_resolve: the types the resolver answers.
HandledQtypes == {"A", "A6", "AAAA", "CNAME", "ANY"}

\* The blocklist consulted before the exact entries.
try_resolve_blocklist_first(resolver, question) ==
    IF question.qtype \notin HandledQtypes THEN None
    ELSE LET name == dname_to_string(question.qname)
             simple == HashMap_get(resolver.simple_matches, name)
             suffix == get_prefix(resolver.suffix_matches, Reverse(name))
         IN  IF name \in resolver.block_list
             THEN respond_with_addr(resolver, question, Ipv4Addr_UNSPECIFIED)
             ELSE IF IsSome(simple)
                  THEN respond_with_addr(resolver, question, Unwrap(simple))
             ELSE IF IsSome(suffix)
                  THEN respond_with_addr(resolver, question, Unwrap(suffix))
             ELSE None

try_resolve(resolver, question) ==
    IF question.qtype \notin HandledQtypes THEN None
    ELSE LET name == dname_to_string(question.qname)
             simple == HashMap_get(resolver.simple_matches, name)
             suffix == get_prefix(resolver.suffix_matches, Reverse(name))
         IN  IF IsSome(simple) THEN respond_with_addr(resolver, question, Unwrap(simple))
             ELSE IF name \in resolver.block_list
                  THEN respond_with_addr(resolver, question, Ipv4Addr_UNSPECIFIED)
             ELSE IF IsSome(suffix)
                  THEN respond_with_addr(resolver, question, Unwrap(suffix))
             ELSE None

\* ------------------------------------------------------------------------
\* util.rs
\* ------------------------------------------------------------------------

\* A u64 is four limbs of 16 bits, the most significant first; the times
\* and TTLs of the model are below 2^31.
Limb == 65536

u64(n) == << 0, 0, n \div Limb, n % Limb >>

\* a + b modulo 2^64.
u64_wrapping_add(a, b) ==
    LET s4 == a[4] + b[4]
        s3 == a[3] + b[3] + s4 \div Limb
        s2 == a[2] + b[2] + s3 \div Limb
        s1 == a[1] + b[1] + s2 \div Limb
    IN  << s1 % Limb, s2 % Limb, s3 % Limb, s4 % Limb >>

\* x ^ y on values of n bits.
RECURSIVE xor_bits(_, _, _)
xor_bits(x, y, n) ==
    IF n = 0 THEN 0
    ELSE ((x + y) % 2) + 2 * xor_bits(x \div 2, y \div 2, n - 1)

u64_xor(a, b) == [i \in 1..4 |-> xor_bits(a[i], b[i], 16)]

Pow2(n) == IF n = 0 THEN 1 ELSE 2 ^ n

\* u64::rotate_left(b): whole limbs first, then the bits left over.
u64_rotate_bits(l, r) ==
    [i \in 1..4 |-> ((l[i] * Pow2(r)) % Limb) + (l[(i % 4) + 1] \div Pow2(16 - r))]

u64_rotate_left(a, b) ==
    u64_rotate_bits([i \in 1..4 |-> a[((i - 1 + (b \div 16)) % 4) + 1]], b % 16)

\* u64::from_le_bytes on up to eight bytes, the missing ones zero.
u64_from_le_bytes(bytes) ==
    LET at(k) == IF k <= Len(bytes) THEN bytes[k] ELSE 0
    IN  << at(7) + 256 * at(8), at(5) + 256 * at(6),
           at(3) + 256 * at(4), at(1) + 256 * at(2) >>

\* One long division of a u64 by ten: << quotient, remainder >>.
u64_div10(a) ==
    LET n1 == a[1]
        n2 == (n1 % 10) * Limb + a[2]
        n3 == (n2 % 10) * Limb + a[3]
        n4 == (n3 % 10) * Limb + a[4]
    IN  << << n1 \div 10, n2 \div 10, n3 \div 10, n4 \div 10 >>, n4 % 10 >>

\* Display of a u64: its decimal digits, the last one from the remainder
\* of the division by ten.
RECURSIVE u64_to_string(_)
u64_digits(d) ==
    IF d[1] = << 0, 0, 0, 0 >> THEN << DecDigits[d[2] + 1] >>
    ELSE u64_to_string(d[1]) \o << DecDigits[d[2] + 1] >>

u64_to_string(a) == u64_digits(u64_div10(a))

\* SipHash 1-3 with a zero key, what DefaultHasher::new() computes: the
\* state is << v0, v1, v2, v3 >>.
SipInit ==
    << << 29551, 28005, 28787, 25973 >>,
       << 25711, 29281, 28260, 28525 >>,
       << 27769, 26469, 28261, 29281 >>,
       << 29797, 25698, 31092, 25971 >> >>

\* One round: v0 += v1; v1 <<<= 13; v1 ^= v0; v0 <<<= 32; v2 += v3;
\* v3 <<<= 16; v3 ^= v2; then v0 += v3; v3 <<<= 21; v3 ^= v0; v2 += v1;
\* v1 <<<= 17; v1 ^= v2; v2 <<<= 32.
sip_round_end(c0, a1, c2, a3) ==
    << c0, u64_xor(u64_rotate_left(a1, 17), c2), u64_rotate_left(c2, 32),
       u64_xor(u64_rotate_left(a3, 21), c0) >>

sip_round_second(b0, a1, a2, a3) ==
    sip_round_end(u64_wrapping_add(b0, a3), a1, u64_wrapping_add(a2, a1), a3)

sip_round_first(a0, v1, a2, v3) ==
    sip_round_second(u64_rotate_left(a0, 32), u64_xor(u64_rotate_left(v1, 13), a0),
                     a2, u64_xor(u64_rotate_left(v3, 16), a2))

sip_round(v) ==
    sip_round_first(u64_wrapping_add(v[1], v[2]), v[2],
                    u64_wrapping_add(v[3], v[4]), v[4])

\* One word of the input compressed into the state: v3 ^= m, a round,
\* v0 ^= m.
sip_compress_end(r, m) == << u64_xor(r[1], m), r[2], r[3], r[4] >>

sip_compress(v, m) ==
    sip_compress_end(sip_round(<< v[1], v[2], v[3], u64_xor(v[4], m) >>), m)

\* Hasher::write over the whole words of the input.
RECURSIVE sip_blocks(_, _)
sip_blocks(v, buf) ==
    IF Len(buf) < 8 THEN v
    ELSE sip_blocks(sip_compress(v, u64_from_le_bytes(SubSeq(buf, 1, 8))),
                    SubSeq(buf, 9, Len(buf)))

\* Hasher::finish: the bytes left over with the length in the top byte
\* are compressed, v2 ^= 0xff, three rounds, and v0 ^ v1 ^ v2 ^ v3.
sip_fold(f) == u64_xor(u64_xor(f[1], f[2]), u64_xor(f[3], f[4]))

sip_finish_rounds(v) ==
    sip_fold(sip_round(sip_round(sip_round(
        << v[1], v[2], u64_xor(v[3], << 0, 0, 0, 255 >>), v[4] >>))))

sip_finish_word(v, w, length) ==
    sip_finish_rounds(sip_compress(v, << w[1] + 256 * (length % 256),
                                         w[2], w[3], w[4] >>))

sip_finish(v, buf) ==
    sip_finish_word(v, u64_from_le_bytes(
                           SubSeq(buf, Len(buf) - (Len(buf) % 8) + 1, Len(buf))),
                    Len(buf))

siphash13(buf) == sip_finish(sip_blocks(SipInit, buf), buf)

\* The hashes of the record data the upstream of the model answers with,
\* computed once.
HashedData ==
    LET bufs == { << 10, 0, 0, 1 >>, << 10, 0, 0, 2 >>,
                  << 1, 65 >>, << 1, 66 >>, << 2, 66 >> }
    IN  [b \in bufs |-> siphash13(b)]

\* hash_buf: the SipHash of the buffer, a u64.
hash_buf(buf) ==
    IF buf \in DOMAIN HashedData THEN HashedData[buf] ELSE siphash13(buf)

\* owned_record_data_to_buffer: the record data composed to its octets.
owned_record_data_to_buffer(data) == Ok(data)

\* A call that does not return: the invocation is over, without a response.
Abort(why) == [ok |-> FALSE, err |-> << why >>, aborts |-> TRUE]

Aborts(res) == "aborts" \in DOMAIN res

\* ParsedDname::parse on the octets from pos on (positions count from 1).
\* A length octet below 64 is a label of that many octets, 0 the root that
\* ends the name, 192 and above the first octet of a compression pointer
\* into the same octets; a name is at most 255 octets long.  The result is
\* [wire, next]: the name uncompressed, and the position after the name
\* where it was met: after the root, or after the first pointer.  A chain
\* of pointers that returns to a pointer without a label in between is
\* followed for ever.
RECURSIVE name_walk(_, _, _, _, _)
name_walk_label(octets, pos, wire, next, seen) ==
    IF Len(wire) + 1 > 255 THEN Err("LongName")
    ELSE name_walk(octets, pos, wire, next, seen)

name_walk_pointer(octets, target, wire, next, seen) ==
    IF target > Len(octets) THEN Err("ShortBuf")
    ELSE IF << target, Len(wire) >> \in seen THEN Abort("compression loop")
    ELSE name_walk(octets, target + 1, wire, next, seen \cup {<< target, Len(wire) >>})

name_walk(octets, pos, wire, next, seen) ==
    IF pos > Len(octets) THEN Err("ShortBuf")
    ELSE IF octets[pos] = 0
    THEN IF Len(wire) + 1 > 255 THEN Err("LongName")
         ELSE Ok([wire |-> wire \o << 0 >>, next |-> IF next = 0 THEN pos + 1 ELSE next])
    ELSE IF octets[pos] < 64
    THEN IF pos + octets[pos] > Len(octets) THEN Err("ShortBuf")
         ELSE name_walk_label(octets, pos + octets[pos] + 1,
                              wire \o SubSeq(octets, pos, pos + octets[pos]), next, seen)
    ELSE IF octets[pos] < 192 THEN Err("BadLabel")
    ELSE IF pos + 1 > Len(octets) THEN Err("ShortBuf")
    ELSE name_walk_pointer(octets, (octets[pos] - 192) * 256 + octets[pos + 1], wire,
                           IF next = 0 THEN pos + 2 ELSE next, seen)

ParsedDname_parse(octets, pos) == name_walk(octets, pos, << >>, 0, {})

\* Txt::parse: all the octets, which must be a run of character strings,
\* each a length octet and that many octets.
RECURSIVE txt_well_formed(_)
txt_well_formed(octets) ==
    IF Len(octets) = 0 THEN TRUE
    ELSE /\ octets[1] + 1 <= Len(octets)
         /\ txt_well_formed(SubSeq(octets, octets[1] + 2, Len(octets)))

\* Record data of fixed-size fields followed by names: the fields as they
\* are, each name uncompressed.
RECURSIVE parse_names(_, _, _, _)
parse_names_next(octets, name, count, data) ==
    IF ~name.ok THEN name
    ELSE parse_names(octets, name.val.next, count - 1, data \o name.val.wire)

parse_names(octets, pos, count, data) ==
    IF count = 0 THEN Ok([data |-> data, next |-> pos])
    ELSE parse_names_next(octets, ParsedDname_parse(octets, pos), count, data)

parse_fields_names(octets, fixed, count) ==
    IF Len(octets) < fixed THEN Err("ShortBuf")
    ELSE parse_names(octets, fixed + 1, count, SubSeq(octets, 1, fixed))

\* Soa::parse: the two names, then serial, refresh, retry, expire and
\* minimum, 20 octets.
parse_soa_numbers(octets, names) ==
    IF ~names.ok THEN names
    ELSE IF Len(octets) < names.val.next + 19 THEN Err("ShortBuf")
    ELSE Ok([data |-> names.val.data
                        \o SubSeq(octets, names.val.next, names.val.next + 19),
             next |-> names.val.next + 20])

\* The variants of AllRecordData among the types of the model; a type it
\* has no variant for is kept as AllRecordData::Other.
RdataVariants == {"A", "AAAA", "CNAME", "MX", "NS", "PTR", "SOA", "SRV", "TXT"}

\* The parse of the data of a variant: [data, next] or the ParseError.
parse_variant(rtype, octets) ==
    CASE rtype = "A"    -> parse_fields_names(octets, 4, 0)
      [] rtype = "AAAA" -> parse_fields_names(octets, 16, 0)
      [] rtype \in {"CNAME", "NS", "PTR"} -> parse_fields_names(octets, 0, 1)
      [] rtype = "MX"   -> parse_fields_names(octets, 2, 1)
      [] rtype = "SRV"  -> parse_fields_names(octets, 6, 1)
      [] rtype = "SOA"  -> parse_soa_numbers(octets, parse_fields_names(octets, 0, 2))
      [] rtype = "TXT"  -> IF txt_well_formed(octets)
                           THEN Ok([data |-> octets, next |-> Len(octets) + 1])
                           ELSE Err("ShortBuf")

\* ParseRecordData::parse_data of AllRecordData: Ok(Some(parsed)), where
\* parsed is [variant, data], or the error of the variant's parse; the
\* data of a type without a variant is all the octets.
parse_data_variant(rtype, parsed) ==
    IF ~parsed.ok THEN parsed
    ELSE Ok(Some([variant |-> rtype, data |-> parsed.val.data]))

parse_data(rtype, octets) ==
    IF rtype \in RdataVariants THEN parse_data_variant(rtype, parse_variant(rtype, octets))
    ELSE Ok(Some([variant |-> "Other", data |-> octets]))

\* Txt::from_slice: the text cut into character strings of at most 255
\* octets; ShortBuf when they come to more than 65535 octets.
RECURSIVE txt_chunks(_)
txt_chunks(text) ==
    IF Len(text) = 0 THEN << >>
    ELSE IF Len(text) <= 255 THEN << Len(text) >> \o text
    ELSE << 255 >> \o SubSeq(text, 1, 255) \o txt_chunks(SubSeq(text, 256, Len(text)))

Txt_from_slice(text) ==
    IF Len(text) + ((Len(text) + 254) \div 255) > 65535 THEN Err("ShortBuf")
    ELSE Ok(txt_chunks(text))

\* Txt::as_flat_slice: the content of the character string when the data
\* is a single one; it reads the first octet of the data, and panics when
\* there is none.
Txt_as_flat_slice(data) ==
    IF Len(data) = 0 THEN Abort("index out of bounds")
    ELSE IF data[1] = Len(data) - 1 THEN Ok(Some(Tail(data)))
    ELSE Ok(None)

\* The record types to_owned_record_data converts.
OwnedRtypes == {"A", "AAAA", "CNAME", "MX", "PTR", "SOA", "TXT", "SRV"}

to_owned_txt_text(text) ==
    IF ~text.ok THEN Err("Cannot parse TXT record") ELSE text

to_owned_txt(flat) ==
    IF Aborts(flat) THEN flat
    ELSE IF ~IsSome(flat.val) THEN Err("Cannot parse TXT record")
    ELSE to_owned_txt_text(Txt_from_slice(Unwrap(flat.val)))

\* to_owned_record_data: the owned data of the variants it converts, as
\* the octets they compose to.
to_owned_record_data(parsed) ==
    IF parsed.variant = "TXT" THEN to_owned_txt(Txt_as_flat_slice(parsed.data))
    ELSE IF parsed.variant \in OwnedRtypes THEN Ok(parsed.data)
    ELSE Err("Unsupported record type")

\* octets_to_owned_record_data: parse the octets as data of the given
\* type, then convert to owned.
octets_to_owned_parsed(parsed) ==
    IF Aborts(parsed) THEN parsed
    ELSE IF ~parsed.ok THEN Err("Cannot parse given record data")
    ELSE IF ~IsSome(parsed.val) THEN Err("Given record data parsed to nothing")
    ELSE to_owned_record_data(Unwrap(parsed.val))

octets_to_owned_record_data(rtype, octets) ==
    octets_to_owned_parsed(parse_data(rtype, octets))

\* ------------------------------------------------------------------------
\* cache.rs: keys and residual TTL
\* ------------------------------------------------------------------------

\* Display of Rtype and of Class: the mnemonic, character by character.
rtype_to_string(rtype) ==
    CASE rtype = "A"     -> << "A" >>
      [] rtype = "AAAA"  -> << "A", "A", "A", "A" >>
      [] rtype = "A6"    -> << "A", "6" >>
      [] rtype = "CNAME" -> << "C", "N", "A", "M", "E" >>
      [] rtype = "ANY"   -> << "A", "N", "Y" >>
      [] rtype = "TXT"   -> << "T", "X", "T" >>
      [] rtype = "MX"    -> << "M", "X" >>
      [] rtype = "NS"    -> << "N", "S" >>
      [] rtype = "PTR"   -> << "P", "T", "R" >>
      [] rtype = "SOA"   -> << "S", "O", "A" >>
      [] rtype = "SRV"   -> << "S", "R", "V" >>

class_to_string(class) ==
    CASE class = "IN" -> << "I", "N" >>
      [] class = "CH" -> << "C", "H" >>

\* format!("{};{};{};{}", owner, rtype, class, hash): the characters of
\* the owner, of the type and of the class and the digits of the hash.
record_to_key(record, buf) ==
    dname_to_string(record.owner) \o << ";" >> \o rtype_to_string(record.rtype)
        \o << ";" >> \o class_to_string(record.class) \o << ";" >>
        \o u64_to_string(hash_buf(buf))

question_to_key_prefix(question) ==
    dname_to_string(question.qname) \o << ";" >> \o rtype_to_string(question.qtype)
        \o << ";" >> \o class_to_string(question.qclass) \o << ";" >>

\* The stored TTL returned as it is, whatever time has passed.
remaining_ttl_blind(now_secs, metadata) == metadata.ttl

\* a - b modulo 2^64: what the subtraction of two u64 gives when overflow
\* is not checked.
u64_wrapping_sub(a, b) ==
    LET d4 == a[4] - b[4]
        b4 == IF d4 < 0 THEN 1 ELSE 0
        d3 == a[3] - b[3] - b4
        b3 == IF d3 < 0 THEN 1 ELSE 0
        d2 == a[2] - b[2] - b3
        b2 == IF d2 < 0 THEN 1 ELSE 0
        d1 == a[1] - b[1] - b2
        b1 == IF d1 < 0 THEN 1 ELSE 0
    IN  << d1 + b1 * Limb, d2 + b2 * Limb, d3 + b3 * Limb, d4 + b4 * Limb >>

u64_gt(a, b) ==
    \E i \in 1..4 : a[i] > b[i] /\ \A j \in 1..(i - 1) : a[j] = b[j]

\* The low 32 bits (x as u32), for a value that fits 31 bits.
u64_as_u32(a) == a[3] * Limb + a[4]

\* Line 72 of get_cache: the subtraction overflows when the stored
\* created_ts is later than the reader's clock.
sub_overflows(now_secs, metadata) == now_secs < metadata.created_ts

\* Whether the build checks arithmetic overflow: the sources fix no
\* profile, so both are possible.  With checks the overflowing
\* subtraction panics, without it wraps.
OverflowChecks == BOOLEAN

\* Lines 72-79 of get_cache: the residual TTL from the stored metadata,
\* where the subtraction does not panic.
remaining_ttl(now_secs, metadata) ==
    LET elapsed_since_creation ==
            u64_wrapping_sub(u64(now_secs), u64(metadata.created_ts))
    IN  IF u64_gt(elapsed_since_creation, u64(metadata.ttl)) THEN 0
        ELSE metadata.ttl - u64_as_u32(elapsed_since_creation)

\* ------------------------------------------------------------------------
\* kv.rs: the key-value store
\* ------------------------------------------------------------------------
\* The store is a set of entries, at most one per key.  An entry written
\* with expirationTtl = ttl at time t may be evicted from time t + ttl on.
\* put_at, put_ttl and put_of record, for the claims only, the time at
\* which the put that wrote the entry was called and the TTL, owner, type
\* and class of the record it was given.

KvEntry(key, value, expiration_ttl, metadata, at, called_at, record) ==
    [key |-> key, value |-> value, metadata |-> metadata,
     expiration |-> at + expiration_ttl, put_at |-> called_at,
     put_ttl |-> record.ttl,
     put_of |-> [qname |-> record.owner, qtype |-> record.rtype,
                 qclass |-> record.class]]

\* One entry per question: a put replaces whatever the question held.
kv_put_single_key(store, entry) ==
    {e \in store : e.put_of # entry.put_of} \cup {entry}

kv_put(store, entry) ==
    {e \in store : e.key # entry.key} \cup {entry}

kv_get(store, key) ==
    IF \E e \in store : e.key = key
    THEN Some(CHOOSE e \in store : e.key = key)
    ELSE None

\* The printable ASCII characters in code order, from the space (32) on.
Ascii ==
    << " ", "!", "U+0022", "#", "$", "%", "&", "'", "(", ")", "*", "+", ",", "-", ".", "/",
       "0", "1", "2", "3", "4", "5", "6", "7", "8", "9", ":", ";", "<", "=", ">", "?",
       "@", "A", "B", "C", "D", "E", "F", "G", "H", "I", "J", "K", "L", "M", "N", "O",
       "P", "Q", "R", "S", "T", "U", "V", "W", "X", "Y", "Z", "[", "U+005C", "]", "^", "_",
       "U+0060", "a", "b", "c", "d", "e", "f", "g", "h", "i", "j", "k", "l", "m", "n", "o",
       "p", "q", "r", "s", "t", "u", "v", "w", "x", "y", "z", "{", "|", "}", "~" >>

\* The code of a character of a key; keys are made of printable ASCII.
char_code(c) == 31 + (CHOOSE i \in 1..Len(Ascii) : Ascii[i] = c)

\* a before b in the order of their UTF-8 bytes.
RECURSIVE key_less(_, _)
key_less(a, b) ==
    IF Len(b) = 0 THEN FALSE
    ELSE IF Len(a) = 0 THEN TRUE
    ELSE IF a[1] = b[1] THEN key_less(Tail(a), Tail(b))
    ELSE char_code(a[1]) < char_code(b[1])

\* The keys in the order list returns them: by their UTF-8 bytes.
RECURSIVE sort_keys(_)
sort_keys(keys) ==
    IF keys = {} THEN << >>
    ELSE LET least == CHOOSE k \in keys : \A o \in keys \ {k} : key_less(k, o)
         IN  << least >> \o sort_keys(keys \ {least})

list_prefix(store, prefix) ==
    sort_keys({e.key : e \in {x \in store : IsPrefix(prefix, x.key)}})

\* ------------------------------------------------------------------------
\* server.rs: decoding, validation, encoding
\* ------------------------------------------------------------------------
\* An HTTP request is [method, url_ok, content_type, dns, body_read, body,
\* accept]: url_ok is whether Url::new takes the request's URL,
\* content_type and accept are Option<string>, dns is the Option of the
\* "dns" URL parameter, [b64_ok, wire], body_read is what reading the body
\* comes to ("ok"; "throws": array_buffer() throws; "rejects": its promise
\* is rejected), body and wire are the octets of a DNS message, modelled
\* as [valid, msg]: whether they parse, and the message [id, qr, rd,
\* questions] they parse to.  Each question of a message is a Result: a
\* question that decodes, or one that does not.  Error messages are token
\* sequences.

\* The calls into the runtime whose failure the server unwraps or turns
\* into an error of its own, named by what they are for: the reads of the
\* request's Content-Type (server.rs 138, 141) and Accept (193, 197), the
\* Headers and Response objects of the 200 (102-117) and those of the
\* error response (21-27).
RuntimeCalls ==
    { "content_type_has", "content_type_get", "accept_has", "accept_get",
      "resp_headers_new", "resp_append_content_type",
      "resp_append_content_length", "resp_new",
      "err_headers_new", "err_append", "err_new" }

ContentTypeReads == { "content_type_has", "content_type_get" }

RespHeaderCalls ==
    { "resp_headers_new", "resp_append_content_type",
      "resp_append_content_length" }

ErrResponseCalls == { "err_headers_new", "err_append", "err_new" }

\* One run of the runtime is the set of its calls that fail.
NoFault == {}

\* The runs a request is put through: no call fails, one call fails, or
\* a call for the headers of the 200 fails and a call for the error
\* response that reports it fails as well.  A run in which further calls
\* fail ends like one of these, the handler returning at the first
\* failure it meets.
RuntimeOutcomes ==
    { NoFault } \cup { { c } : c \in RuntimeCalls }
                \cup { { c, e } : c \in RespHeaderCalls, e \in ErrResponseCalls }

parse_dns_wireformat(wire) ==
    IF wire.valid THEN Ok(wire.msg)
    ELSE Err(<< "Failed to parse DNS wireformat message" >>)

\* parse_dns_body reaches its await (lines 148-150): a POST of the
\* supported content type whose array_buffer() has returned a promise.
parse_dns_body_awaits(req, rt) ==
    /\ req.method = "POST"
    /\ ContentTypeReads \cap rt = {}
    /\ IsSome(req.content_type)
    /\ Unwrap(req.content_type) = "application/dns-message"
    /\ req.body_read # "throws"

parse_dns_body(req, rt) ==
    IF req.method = "GET"
    THEN IF ~req.url_ok THEN Err(<< "Invalid url" >>)
         ELSE IF IsSome(req.dns)
         THEN IF Unwrap(req.dns).b64_ok
              THEN parse_dns_wireformat(Unwrap(req.dns).wire)
              ELSE Err(<< "Failed to decode base64 DNS request" >>)
         ELSE Err(<< "Missing supported GET parameters" >>)
    ELSE IF req.method = "POST"
    THEN IF "content_type_has" \in rt THEN Abort("Result::unwrap")
         ELSE IF ~IsSome(req.content_type)
         THEN Err(<< "Missing Content-Type header" >>)
         ELSE IF "content_type_get" \in rt THEN Abort("Result::unwrap")
         ELSE IF Unwrap(req.content_type) # "application/dns-message"
         THEN Err(<< "Unsupported Content-Type" >>)
         ELSE IF req.body_read # "ok"
         THEN Err(<< "Failed to read request body" >>)
         ELSE parse_dns_wireformat(req.body)
    ELSE Err(<< "Unsupported method", req.method >>)

\* The questions extracted whatever the header says.
extract_questions_any_header(msg) ==
    IF Len(msg.questions) = 0 THEN Err(<< "No question provided" >>)
    ELSE IF \E i \in 1..Len(msg.questions) : ~msg.questions[i].ok
         THEN Err(<< "Failed to parse domain name" >>)
    ELSE Ok([i \in 1..Len(msg.questions) |->
                Question_new(msg.questions[i].val.qname, msg.questions[i].val.qtype,
                             msg.questions[i].val.qclass)])

extract_questions(msg) ==
    IF msg.qr THEN Err(<< "Not a DNS query" >>)
    ELSE IF ~msg.rd THEN Err(<< "Non-recursive queries are not supported" >>)
    ELSE IF Len(msg.questions) = 0 THEN Err(<< "No question provided" >>)
    ELSE IF \E i \in 1..Len(msg.questions) : ~msg.questions[i].ok
         THEN Err(<< "Failed to parse domain name" >>)
    ELSE Ok([i \in 1..Len(msg.questions) |->
                Question_new(msg.questions[i].val.qname, msg.questions[i].val.qtype,
                             msg.questions[i].val.qclass)])

\* The Accept header left unread.
get_response_format_wire_only(req, rt) == Ok("WireFormat")

\* get_response_format: the format, or the panic of an unwrap() on a read
\* of the Accept header that fails.
get_response_format(req, rt) ==
    IF "accept_has" \in rt THEN Abort("Result::unwrap")
    ELSE IF ~IsSome(req.accept) THEN Ok("WireFormat")
    ELSE IF "accept_get" \in rt THEN Abort("Result::unwrap")
    ELSE CASE Unwrap(req.accept) = "application/dns-message" -> Ok("WireFormat")
           [] Unwrap(req.accept) = "application/dns-json"    -> Ok("JsonFormat")
           [] OTHER                                          -> Ok("WireFormat")

\* The RCODE left at the builder's default.
answer_rcode_default(records) == "NOERROR"

\* Lines 217-220 of build_answer_wireformat: the RCODE of the response.
answer_rcode(records) ==
    IF Len(records) = 0 THEN "NXDOMAIN" ELSE "NOERROR"

\* The message built with the builder's own ID, not the query's.
build_answer_wireformat_own_id(id, questions, records) ==
    Ok([id |-> 0, opcode |-> "QUERY", qr |-> TRUE, aa |-> FALSE, ra |-> TRUE,
        rcode |-> answer_rcode(records),
        questions |-> questions, answers |-> records])

build_answer_wireformat(id, questions, records) ==
    Ok([id |-> id, opcode |-> "QUERY", qr |-> TRUE, aa |-> FALSE, ra |-> TRUE,
        rcode |-> answer_rcode(records),
        questions |-> questions, answers |-> records])

\* Octets of a composed message: 12 of header; per question the name and
\* 4; per record the name, 10 and the data.  Names are not compressed.
RECURSIVE SumLen(_)
SumLen(labels) ==
    IF Len(labels) = 0 THEN 0 ELSE Len(Head(labels)) + 1 + SumLen(Tail(labels))

dname_wire_len(name) == SumLen(name) + 1

RECURSIVE SumOver(_, _)
SumOver(items, kind) ==
    IF Len(items) = 0 THEN 0
    ELSE (IF kind = "question"
          THEN dname_wire_len(Head(items).qname) + 4
          ELSE dname_wire_len(Head(items).owner) + 10 + Len(Head(items).data))
         + SumOver(Tail(items), kind)

message_octets_len(msg) ==
    12 + SumOver(msg.questions, "question") + SumOver(msg.answers, "record")

\* The headers of a response: each an Option.
NoHeaders ==
    [content_type |-> None, content_length |-> None, error_message |-> None]

\* Headers::new() and Headers::append(name, value), each the call `call`
\* of the run rt of the runtime: the object, or the error thrown.
Headers_new(rt, call) ==
    IF call \in rt THEN Err(<< "JsValue" >>) ELSE Ok(NoHeaders)

Headers_append(headers, name, value, rt, call) ==
    IF call \in rt THEN Err(<< "JsValue" >>)
    ELSE Ok([headers EXCEPT ![name] = Some(value)])

\* The err_response! macro on an Err (lines 20-27): the response the
\* handler returns, or the panic of one of its three unwrap().
err_response(err, rt) ==
    LET headers == Headers_new(rt, "err_headers_new")
        appended == Headers_append(headers.val, "error_message", err,
                                   rt, "err_append")
    IN  IF ~headers.ok \/ ~appended.ok \/ "err_new" \in rt
        THEN Abort("Result::unwrap")
        ELSE Ok([status |-> 400, headers |-> appended.val, body |-> err])

NoResponse == [status |-> 0, headers |-> NoHeaders, body |-> << >>]

\* handle_request from get_response_format on (lines 89-117): the
\* response returned, or the panic of an unwrap().
build_response(req, query_id, questions, records, rt) ==
    LET resp_format == get_response_format(req, rt)
        resp_body == IF resp_format.val = "WireFormat"
                     THEN build_answer_wireformat(query_id, questions, records)
                     ELSE Err(<< "JSON is not supported yet" >>)
        resp_content_type == IF resp_format.val = "WireFormat"
                             THEN "application/dns-message"
                             ELSE "application/dns-json"
        resp_headers == Headers_new(rt, "resp_headers_new")
        with_type == Headers_append(resp_headers.val, "content_type",
                                    resp_content_type,
                                    rt, "resp_append_content_type")
        with_length == Headers_append(with_type.val, "content_length",
                                      message_octets_len(resp_body.val),
                                      rt, "resp_append_content_length")
    IN  IF Aborts(resp_format) THEN resp_format
        ELSE IF ~resp_body.ok THEN err_response(resp_body.err, rt)
        ELSE IF ~resp_headers.ok \/ ~with_type.ok \/ ~with_length.ok
        THEN err_response(<< "Could not create headers" >>, rt)
        ELSE IF "resp_new" \in rt THEN Abort("Result::unwrap")
        ELSE Ok([status |-> 200, headers |-> with_length.val,
                 body |-> resp_body.val])

\* ------------------------------------------------------------------------
\* Inputs: configuration, requests, upstream answers
\* ------------------------------------------------------------------------

N_bae  == << << "b" >>, << "a" >>, << "e" >> >>
N_nae  == << << "n", "a" >>, << "e" >> >>
N_re   == << << "r" >>, << "e" >> >>
N_ae   == << << "a" >>, << "e" >> >>
N_cbae == << << "c" >>, << "b" >>, << "a" >>, << "e" >> >>
N_kae  == << << "k" >>, << "a" >>, << "e" >> >>
N_xt   == << << "x" >>, << "t" >> >>
N_zt   == << << "z" >>, << "t" >> >>
N_vt   == << << "v" >>, << "t" >> >>
N_mt   == << << "m" >>, << "t" >> >>

\* Names that differ from x.t, b.a.e and na.e in letter case only.
N_Xt == << << "X" >>, << "t" >> >>

N_bAe == << << "b" >>, << "A" >>, << "e" >> >>

N_NAe == << << "N", "A" >>, << "e" >> >>

\* n.e, and a name of three labels whose second holds semicolons: the
\* octets of a label are arbitrary, and Display prints a semicolon as it
\* is.  Its presentation form is "n.e;A;IN;y.t".
N_ne == << << "n" >>, << "e" >> >>

N_ne_semi == << << "n" >>, << "e", ";", "A", ";", "I", "N", ";", "y" >>, << "t" >> >>

\* config.json "overrides": an exact entry, a wildcard, a wildcard below
\* it, an IPv6 entry and an entry whose value is no address.
Overrides ==
    { << << "x", ".", "t" >>, << "1", "9", "2", ".", "0", ".", "2", ".", "9" >> >>,
      << << "*", ".", "a", ".", "e" >>, << "1", "9", "2", ".", "0", ".", "2", ".", "1" >> >>,
      << << "*", ".", "b", ".", "a", ".", "e" >>, << "1", "9", "2", ".", "0", ".", "2", ".", "2" >> >>,
      << << "v", ".", "t" >>, << ":", ":", "1" >> >>,
      << << "m", ".", "t" >>, << "n", "o", "t", "-", "a", "n", "-", "a", "d", "d", "r", "e", "s", "s" >> >> }

\* config.json "override_ttl".
OverrideTtl == 60

\* blocklist.txt: a comment, an empty line, a name a wildcard also matches
\* on a line that ends in "\r\n", a name with an exact override, a name
\* with a space before it and a tab after it, and no "\n" after the last
\* line.
BlocklistText ==
    << "#", "a", "d", "s", "\n",
       "\n",
       "k", ".", "a", ".", "e", "\r", "\n",
       "x", ".", "t", "\n",
       " ", "z", ".", "t", "\t" >>

\* config.json "upstream_urls".
UpstreamUrls == << "https://one.example/dns-query", "https://two.example/dns-query" >>

\* The orders in which a HashMap of the entries may be iterated.
Enumerations(S) ==
    {f \in [1..Cardinality(S) -> S] : \A i, j \in 1..Cardinality(S) : f[i] = f[j] => i = j}

Q(name, qtype) == Ok(Question_new(name, qtype, "IN"))

QuestionLists ==
    { << Q(N_bae, "A") >>, << Q(N_nae, "A") >>, << Q(N_ae, "A") >>,
      << Q(N_cbae, "A") >>, << Q(N_kae, "A") >>, << Q(N_xt, "A") >>,
      << Q(N_zt, "A") >>, << Q(N_vt, "A") >>, << Q(N_mt, "A") >>,
      << Q(N_bae, "TXT") >>,
      << Q(N_xt, "A"), Q(N_nae, "A") >>,
      << Q(N_nae, "A"), Q(N_bae, "A") >>,
      << Q(N_nae, "A"), Q(N_ae, "A") >>,
      << Q(N_Xt, "A") >>, << Q(N_bAe, "A") >>, << Q(N_NAe, "A") >> }

Message_new(id, qr, rd, questions) ==
    [id |-> id, qr |-> qr, rd |-> rd, questions |-> questions]

Wire(msg) == [valid |-> TRUE, msg |-> msg]

BadWire == [valid |-> FALSE, msg |-> Message_new(0, FALSE, FALSE, << >>)]

Post(wire, accept) ==
    [method |-> "POST", url_ok |-> TRUE,
     content_type |-> Some("application/dns-message"),
     dns |-> None, body_read |-> "ok", body |-> wire, accept |-> accept]

Get(dns, accept) ==
    [method |-> "GET", url_ok |-> TRUE, content_type |-> None, dns |-> dns,
     body_read |-> "ok", body |-> BadWire, accept |-> accept]

\* The requests a client may send.
Requests ==
    { Post(Wire(Message_new(7, FALSE, TRUE, qs)), None) : qs \in QuestionLists }
    \cup
    { Post(Wire(Message_new(9, FALSE, TRUE, << Q(N_xt, "A") >>)), Some(a)) :
        a \in {"application/dns-message", "text/html"} }
    \cup
    { Post(Wire(Message_new(9, FALSE, TRUE, << Q(N_ae, "A") >>)),
           Some("application/dns-json")) }
    \cup
    { Get(Some([b64_ok |-> TRUE,
                wire |-> Wire(Message_new(8, FALSE, TRUE, << Q(N_xt, "A") >>))]), None),
      Get(Some([b64_ok |-> FALSE, wire |-> BadWire]), None),
      Get(Some([b64_ok |-> TRUE, wire |-> BadWire]), None),
      Get(None, None),
      [Get(None, None) EXCEPT !.url_ok = FALSE],
      [Post(Wire(Message_new(7, FALSE, TRUE, << Q(N_xt, "A") >>)), None)
          EXCEPT !.body_read = "throws"],
      [Post(Wire(Message_new(7, FALSE, TRUE, << Q(N_xt, "A") >>)), None)
          EXCEPT !.body_read = "rejects"],
      [Post(BadWire, None) EXCEPT !.content_type = None],
      [Post(BadWire, None) EXCEPT !.content_type = Some("text/plain")],
      [Post(BadWire, None) EXCEPT !.method = "PUT"],
      Post(BadWire, None),
      Post(Wire(Message_new(7, TRUE, TRUE, << Q(N_xt, "A") >>)), None),
      Post(Wire(Message_new(7, FALSE, FALSE, << Q(N_xt, "A") >>)), None),
      Post(Wire(Message_new(7, FALSE, TRUE, << >>)), None),
      Post(Wire(Message_new(7, FALSE, TRUE,
                            << Q(N_xt, "A"), Err(<< "bad label" >>) >>)), None) }

\* Record data an upstream may return for a question of the given type.
RdataFor(qtype) ==
    IF qtype = "TXT" THEN << << 1, 65 >>, << 1, 66 >> >>
    ELSE << << 10, 0, 0, 1 >>, << 10, 0, 0, 2 >> >>

\* TXT data whose character string is shorter than its length octet says:
\* extract_answers takes record data as opaque octets, so an upstream's
\* record may carry it.
MalformedTxt == << 2, 66 >>

\* The answer sections an upstream may return to a query, all for its
\* first question: for na.e/A none, one record, one record of TTL 0, or
\* two records; for a.e none, or the A record of na.e (the end of an alias
\* chain, as an upstream's answer section is not confined to the owner
\* asked for); for c.b.a.e/TXT none, or a well-formed record and a
\* malformed one; for the name with semicolons none, or one record; for
\* the others none.
UpstreamAnswers(questions) ==
    LET q == questions[1]
        d == RdataFor(q.qtype)
        rec(ttl, data) == Record_new(q.qname, q.qclass, ttl, q.qtype, data)
    IN  IF q.qname = N_nae /\ q.qtype = "A"
        THEN { << >>,
               << rec(2, d[1]) >>,
               << rec(0, d[1]) >>,
               << rec(2, d[1]), rec(1, d[2]) >> }
        ELSE IF q.qname = N_ae
        THEN { << >>, << Record_new(N_nae, q.qclass, 2, "A", d[1]) >> }
        ELSE IF q.qname = N_cbae /\ q.qtype = "TXT"
        THEN { << >>, << rec(2, d[1]), rec(2, MalformedTxt) >> }
        ELSE IF q.qname = N_ne_semi
        THEN { << >>, << rec(1, d[2]) >> }
        ELSE IF q.qname = N_re
        THEN { << >>, << rec(1, d[1]) >> }
        ELSE { << >> }

\* What one call of do_query comes to is an outcome [kind, status, rcode,
\* answers].  Before the fetch: the Headers object cannot be made, a header
\* cannot be appended, or the Request object cannot be made.
Outcome(kind, status, rcode, answers) ==
    [kind |-> kind, status |-> status, rcode |-> rcode, answers |-> answers]

QuerySetups ==
    { Outcome("ready", 0, "", << >>),
      Outcome("headers_new", 0, "", << >>),
      Outcome("headers_append", 0, "", << >>),
      Outcome("request_new", 0, "", << >>) }

\* When the fetch settles: it is rejected, the status is not 200,
\* array_buffer() throws, or the response body is awaited.
FetchOutcomes ==
    { Outcome("fetch_error", 0, "", << >>),
      Outcome("status", 502, "", << >>),
      Outcome("status", 503, "", << >>),
      Outcome("no_body", 200, "", << >>),
      Outcome("response", 200, "", << >>) }

\* When the body settles: it is rejected, it is no DNS message, or it is a
\* message of some RCODE, which may be a NOERROR message whose question
\* section, or a record of whose answer section, does not decode.
UpstreamOutcomes(questions) ==
    { Outcome("body_error", 200, "", << >>),
      Outcome("bad_body", 200, "", << >>),
      Outcome("bad_answer_section", 200, "NOERROR", << >>),
      Outcome("bad_answers", 200, "NOERROR", << >>),
      Outcome("bad_record_data", 200, "NOERROR", << >>),
      Outcome("bad_owner", 200, "NOERROR", << >>),
      Outcome("message", 200, "SERVFAIL", << >>),
      Outcome("message", 200, "NXDOMAIN", << >>) }
    \cup
    { Outcome("message", 200, "NOERROR", a) : a \in UpstreamAnswers(questions) }

\* ------------------------------------------------------------------------
\* State
\* ------------------------------------------------------------------------

Workers == {"w1"}

VARIABLES
    resolver,   \* the OverrideResolver built at start-up
    retries,    \* config.json "retries"
    now,        \* the clock, in seconds
    kv,         \* the DNS_CACHE key-value namespace
    received,   \* number of requests received so far
    task,       \* per worker: the request it is handling and where it is
    trie,       \* a TrieMap on its own, put to and looked up in
    stored,     \* the calls of put_prefix made on it: << key, value >>
    found       \* the last call of get_prefix on it: key and result

vars == << resolver, retries, now, kv, received, task, trie, stored, found >>

\* A worker's task.  pc is the await the request is suspended at:
\*   "idle"   no request
\*   "start"  handle_request_rs, before Server::get() returns
\*   "body"   parse_dns_body, before the request body is read
\*   "local"  try_answer_from_local, before question qi
\*   "get"    get_cache of question qi, before get_buf_metadata of keys[ki]
\*   "fetch"  do_query, before the fetch settles
\*   "recv"   do_query, before the response body is read
\*   "put"    cache_answers, put_cache of upstream[pi] called at second
\*            put_ts, before the KV settles the put
\*   "done"   the handler has returned its response, or has panicked
\* and two points no step ends at: "query", the point of query where
\* try_answer_from_local has returned with questions remaining (line 41),
\* and "return", the point of handle_request where query_with_retry has
\* returned (line 88).
\* The fields from qlog on are not state of the program; they record what
\* the current attempt (attempts: the request) has done:
\*   qlog      per question handled: where it went, and the records found
\*   looked    the questions get_cache was called for
\*   sent      whether the attempt has called the upstream
\*   outcome   the upstream's answer to that call
\*   attempts  per finished attempt: whether it called the upstream, and
\*             whether query returned Ok
\*   first_ok  the result of the first attempt that returned Ok
\*   late_call whether the upstream was called after such an attempt
\*   puts      the KV puts issued: key, ttl, and whether the KV accepted
\*   last_get  the last entry get_cache read: when and for what question
\*             it was read, when, with what TTL and for what owner, type
\*             and class it was put, and the record made of it
\*   lookup    the last call of get_cache: the question, how many keys the
\*             KV listed, how many of them the loop skipped, how many
\*             values parsed, and whether a value did not parse
NoRequest == Get(None, None)

NoOutcome == [kind |-> "none", status |-> 0, rcode |-> "", answers |-> << >>]

\* No cache lookup made yet in the attempt.
NoLookup == [qi |-> 0, listed |-> 0, skipped |-> 0, parsed |-> 0, unparsed |-> FALSE]

IdleTask ==
    [pc |-> "idle", req |-> NoRequest, query_id |-> 0, questions |-> << >>,
     attempt |-> 0, qi |-> 0, answers |-> << >>, remaining |-> << >>,
     keys |-> << >>, ki |-> 0, ret |-> << >>, upstream |-> << >>, pi |-> 0,
     put_ts |-> 0,
     last_res |-> Err(<< "Dummy" >>), response |-> NoResponse,
     qlog |-> << >>, looked |-> {}, sent |-> FALSE, outcome |-> NoOutcome,
     attempts |-> << >>, first_ok |-> None, late_call |-> FALSE,
     puts |-> << >>, last_get |-> None, lookup |-> NoLookup,
     panicked |-> FALSE, panic_why |-> ""]

\* A panic ends the invocation: the handler returns no response.
panic(t, why) == [t EXCEPT !.pc = "done", !.panicked = TRUE, !.panic_why = why]

\* handle_request returns: res is the response, or the panic on the way
\* to it.
return_response(t, res) ==
    IF Aborts(res) THEN panic(t, res.err[1])
    ELSE [t EXCEPT !.pc = "done", !.response = res.val]

\* ------------------------------------------------------------------------
\* client.rs
\* ------------------------------------------------------------------------

\* handle_request after query_with_retry has returned (lines 84-117),
\* in the run rt of the runtime.
FinishRequest(t, rt) ==
    return_response(t,
        IF ~t.last_res.ok THEN err_response(t.last_res.err, rt)
        ELSE build_response(t.req, t.query_id, t.questions, t.last_res.val, rt))

\* The rest of handle_request for a task query_with_retry has returned to.
handle_request_end(t, rt) ==
    IF t.pc # "return" THEN t ELSE FinishRequest(t, rt)

\* The next attempt started with the local answers of the one before.
StartAttempt_carry(t) ==
    [t EXCEPT !.pc = "local", !.attempt = @ + 1, !.qi = 1,
              !.remaining = << >>,
              !.keys = << >>, !.ki = 0, !.ret = << >>, !.upstream = << >>, !.pi = 0,
              !.qlog = << >>, !.looked = {}, !.sent = FALSE, !.outcome = NoOutcome,
              !.puts = << >>, !.last_get = None, !.lookup = NoLookup]

\* The start of one call of query from the loop of query_with_retry.
StartAttempt(t) ==
    [t EXCEPT !.pc = "local", !.attempt = @ + 1, !.qi = 1,
              !.answers = << >>, !.remaining = << >>,
              !.keys = << >>, !.ki = 0, !.ret = << >>, !.upstream = << >>, !.pi = 0,
              !.qlog = << >>, !.looked = {}, !.sent = FALSE, !.outcome = NoOutcome,
              !.puts = << >>, !.last_get = None, !.lookup = NoLookup]

\* The loop without its break: every attempt is made.
retry_loop_no_break(res, attempt, n) ==
    attempt >= n

\* The loop over 0..=retries: one attempt too many.
retry_loop_inclusive(res, attempt, n) ==
    res.ok \/ attempt >= n + 1

\* The loop of query_with_retry leaves after attempt number `attempt`
\* (lines 66-71): the attempt succeeded, or it was the last.
retry_loop_ends(res, attempt, n) ==
    res.ok \/ attempt >= n

\* query has returned res: back in the loop of query_with_retry.
FinishAttempt(t, res, n) ==
    LET t1 == [t EXCEPT !.last_res = res,
                        !.attempts = Append(@, [sent |-> t.sent, ok |-> res.ok]),
                        !.first_ok = IF res.ok /\ ~IsSome(@) THEN Some(res) ELSE @]
    IN  IF retry_loop_ends(res, t.attempt, n) THEN [t1 EXCEPT !.pc = "return"]
        ELSE StartAttempt(t1)

\* query_with_retry up to the first await.
query_with_retry(t, n) ==
    IF n = 0 THEN [t EXCEPT !.pc = "return", !.last_res = Err(<< "Dummy" >>)]
    ELSE StartAttempt(t)

\* try_answer_from_local has handled question qi: on to the next, or back
\* in query (lines 34-40) when it was the last.
AfterQuestion(t, n) ==
    LET t1 == [t EXCEPT !.qi = @ + 1, !.keys = << >>, !.ki = 0, !.ret = << >>]
    IN  IF t1.qi <= Len(t1.questions) THEN [t1 EXCEPT !.pc = "local"]
        ELSE IF Len(t1.remaining) = 0 THEN FinishAttempt(t1, Ok(t1.answers), n)
        ELSE [t1 EXCEPT !.pc = "query"]

\* The override's answer kept and the question forwarded all the same.
answered_by_override_and_forwarded(t, ans, n) ==
    AfterQuestion([t EXCEPT !.answers = Append(@, ans),
                            !.remaining = Append(@, t.questions[t.qi]),
                            !.qlog = Append(@, [src |-> "override", recs |-> << ans >>])], n)

\* The three branches of try_answer_from_local (lines 195-205).
answered_by_override(t, ans, n) ==
    AfterQuestion([t EXCEPT !.answers = Append(@, ans),
                            !.qlog = Append(@, [src |-> "override", recs |-> << ans >>])], n)

answered_by_cache(t, ans, n) ==
    AfterQuestion([t EXCEPT !.answers = @ \o ans,
                            !.qlog = Append(@, [src |-> "cache", recs |-> ans])], n)

not_answered(t, n) ==
    AfterQuestion([t EXCEPT !.remaining = Append(@, t.questions[t.qi]),
                            !.qlog = Append(@, [src |-> "forward", recs |-> << >>])], n)

\* The local answers put before the upstream's.
noerror_result_local_first(ret, local_answers) == Ok(local_answers \o ret)

\* The arms of the match on the RCODE in query (lines 46-56).
noerror_result(ret, local_answers) == Ok(ret \o local_answers)

\* NXDOMAIN taken for a server error like the other RCODEs.
nxdomain_result_error(local_answers) == Err(<< "Server error:", "NXDOMAIN" >>)

nxdomain_result(local_answers) == Ok(<< >>)

other_rcode_result(rcode) == Err(<< "Server error:", rcode >>)

\* Every record of the result handed to the cache, local ones included.
cache_answers_arg_all(upstream_answers, local_answers) ==
    upstream_answers \o local_answers

\* The records query hands to cache_answers (line 48): those extracted
\* from the upstream's message, before the local answers are appended.
cache_answers_arg(upstream_answers, local_answers) == upstream_answers

\* The draws of Math.random() a query is built with.  A draw is a number
\* in [0, 1), held as its multiple of 1/65536: 49152 is 0.75.
Randoms == { 0, 49152, 65535 }

\* random_range (util.rs): min + from_float(random() * max), the product
\* truncated: (random * max) \div 65536, divided in two steps of 256 to
\* keep the product within 32 bits.
random_range(min, max, random) ==
    min + ((random \div 256) * max + ((random % 256) * max) \div 256) \div 256

\* build_query: a message with the ID drawn from 0 .. u16::MAX - 1 and the
\* questions pushed into it, of at most 65535 octets.  The ID is not read
\* again.
build_query(questions, random) ==
    IF 12 + SumOver(questions, "question") > 65535
    THEN Err(<< "Size limit exceeded" >>)
    ELSE Ok(Message_new(random_range(0, 65535, random), FALSE, TRUE, questions))

\* do_query: the upstream's message, or why there is none.  The status of
\* a response other than 200 is part of the error.
do_query(outcome) ==
    CASE outcome.kind = "headers_new"    -> Err(<< "Could not create headers" >>)
      [] outcome.kind = "headers_append" -> Err(<< "Could not append header" >>)
      [] outcome.kind = "request_new"    -> Err(<< "Failed to create Request object" >>)
      [] outcome.kind = "fetch_error"    -> Err(<< "Upstream request error" >>)
      [] outcome.kind = "status"         ->
             Err(<< "Unknown response status", outcome.status >>)
      [] outcome.kind = "no_body"        -> Err(<< "Cannot get body" >>)
      [] outcome.kind = "body_error"     -> Err(<< "Failure receiving response body" >>)
      [] outcome.kind = "bad_body"       ->
             Err(<< "Failed to parse DNS wireformat message" >>)
      [] OTHER                           -> Ok(outcome)

\* extract_answers: the records of the answer section, or the error of the
\* first step that fails: reaching the answer section, decoding a record,
\* its data, or its owner.
extract_answers(msg) ==
    CASE msg.kind = "bad_answer_section" ->
             Err(<< "Failed to parse DNS answer from upstream" >>)
      [] msg.kind = "bad_answers"     -> Err(<< "Failed to parse DNS answer record" >>)
      [] msg.kind = "bad_record_data" -> Err(<< "Cannot parse record" >>)
      [] msg.kind = "bad_owner"       -> Err(<< "Failed to parse Dname" >>)
      [] OTHER                        -> Ok(msg.answers)

\* select_upstream: random_range(0, len) is an index below len, any of the
\* URLs; with no URL configured, index 0 is out of bounds.
select_upstream(urls) ==
    IF Len(urls) = 0 THEN Abort("index out of bounds")
    ELSE Ok({urls[i] : i \in 1..Len(urls)})

\* query from build_query to the fetch of do_query (lines 41-43 and
\* 105-124), for a task that has come to line 41.
query_forward_setup(t, setup, n) ==
    IF ~do_query(setup).ok
    THEN FinishAttempt([t EXCEPT !.outcome = setup], do_query(setup), n)
    ELSE [t EXCEPT !.pc = "fetch"]

query_forward_built(t, msg, setup, n) ==
    IF ~msg.ok THEN FinishAttempt(t, msg, n)
    ELSE IF Aborts(select_upstream(UpstreamUrls))
    THEN panic(t, select_upstream(UpstreamUrls).err[1])
    ELSE query_forward_setup(t, setup, n)

query_forward(t, setup, random, n) ==
    IF t.pc # "query" THEN t
    ELSE query_forward_built(t, build_query(t.remaining, random), setup, n)

\* Whatever the loop collected returned as a hit, be it nothing.
get_cache_result_any(ret) == Some(ret)

\* The end of get_cache (lines 89-97): nothing collected is a miss.
get_cache_result(ret) ==
    IF Len(ret) = 0 THEN None ELSE Some(ret)

\* The entry put_cache writes at time at of the KV when the writer's
\* clock, which Date::now() reads, is skew seconds ahead of it.
put_cache_skewed(record, at, skew) ==
    LET data == owned_record_data_to_buffer(record.data).val
    IN  KvEntry(record_to_key(record, data), data, record.ttl,
                Some([created_ts |-> at + skew, ttl |-> record.ttl]),
                at, at, record)

\* The entry of a put_cache called at second now_secs, which Date::now()
\* reads before the put is awaited (line 36), and settled by the KV at
\* second at.
put_cache(record, now_secs, at) ==
    LET data == owned_record_data_to_buffer(record.data).val
    IN  KvEntry(record_to_key(record, data), data, record.ttl,
                Some([created_ts |-> now_secs, ttl |-> record.ttl]),
                at, now_secs, record)

\* put_cache up to its await: the clock is read and the put is issued.
put_cache_call(t, now_secs) ==
    IF t.pc = "put" THEN [t EXCEPT !.put_ts = now_secs] ELSE t

\* ------------------------------------------------------------------------
\* Actions
\* ------------------------------------------------------------------------

Init ==
    /\ \E entries \in Enumerations(Overrides) :
           resolver = OverrideResolver_new(entries, OverrideTtl, BlocklistText)
    /\ retries \in 0..MaxRetries
    /\ now = 0
    /\ kv = {}
    /\ received = 0
    /\ task = [r \in Workers |-> IdleTask]
    /\ trie = TrieMap_new /\ stored = << >> /\ found = None

\* handle_request up to the first await of the planner (lines 81-88):
\* decode, validate, enter query_with_retry.
handle_request(req, n, rt) ==
    LET t0 == [IdleTask EXCEPT !.req = req]
        body == parse_dns_body(req, rt)
        questions == extract_questions(body.val)
    IN  IF Aborts(body) THEN panic(t0, body.err[1])
        ELSE IF ~body.ok
        THEN return_response(t0, err_response(body.err, rt))
        ELSE IF ~questions.ok
        THEN return_response([t0 EXCEPT !.query_id = body.val.id],
                             err_response(questions.err, rt))
        ELSE query_with_retry([t0 EXCEPT !.query_id = body.val.id,
                                         !.questions = questions.val], n)

\* handle_request_rs up to its first await: the request is taken.
handle_request_rs(req) == [IdleTask EXCEPT !.pc = "start", !.req = req]

\* A request arrives at a free worker.
Receive(r) ==
    /\ task[r].pc = "idle"
    /\ received < MaxRequests
    /\ received' = received + 1
    /\ \E req \in Requests :
         task' = [task EXCEPT ![r] = handle_request_rs(req)]
    /\ UNCHANGED << resolver, retries, now, kv, trie, stored, found >>

\* The calls of the runtime the handler can come to from t before its
\* next await: none unless query_with_retry has returned, and those of the
\* error response alone when it has returned an error.
RuntimeCallsAt(t) ==
    IF t.pc # "return" THEN {}
    ELSE IF ~t.last_res.ok THEN ErrResponseCalls
    ELSE RuntimeCalls \ ContentTypeReads

\* The handler runs on from t to its next await, or to its end in one of
\* the runs of the runtime.
Return(r, t) ==
    \E rt \in { f \in RuntimeOutcomes : f \subseteq RuntimeCallsAt(t) } :
        task' = [task EXCEPT ![r] = handle_request_end(t, rt)]

\* At "query" the query is built with a draw of Math.random() and the
\* request to the upstream is set up; elsewhere neither is done.
Forward(r, t) ==
    \E setup \in IF t.pc = "query" THEN QuerySetups ELSE { NoOutcome },
       random \in IF t.pc = "query" THEN Randoms ELSE { 0 } :
        Return(r, query_forward(t, setup, random, retries))

\* Server::get() has returned: handle_request runs parse_dns_body up to
\* the await of the request body, or, when it does not come to that
\* await, on to the first await of the planner or to its end.
Handle(r) ==
    LET t == task[r]
    IN  /\ t.pc = "start"
        /\ \E rt \in RuntimeOutcomes :
             task' = [task EXCEPT ![r] =
                 IF parse_dns_body_awaits(t.req, rt) THEN [t EXCEPT !.pc = "body"]
                 ELSE handle_request_end(handle_request(t.req, retries, rt), rt)]
        /\ UNCHANGED << resolver, retries, now, kv, received, trie, stored, found >>

\* The read of the request body has settled: the rest of parse_dns_body
\* and handle_request up to the first await of the planner or to its end.
\* The reads of Content-Type were made, and did not fail, before the await.
ReadBody(r) ==
    LET t == task[r]
    IN  /\ t.pc = "body"
        /\ \E rt \in { f \in RuntimeOutcomes : ContentTypeReads \cap f = {} } :
             task' = [task EXCEPT ![r] =
                 handle_request_end(handle_request(t.req, retries, rt), rt)]
        /\ UNCHANGED << resolver, retries, now, kv, received, trie, stored, found >>

\* try_answer_from_local, first branch: the override resolver answers.
ResolveOverride(r) ==
    LET t == task[r]
        ans == try_resolve(resolver, t.questions[t.qi])
    IN  /\ t.pc = "local"
        /\ IsSome(ans)
        /\ Forward(r, answered_by_override(t, Unwrap(ans), retries))
        /\ UNCHANGED << resolver, retries, now, kv, received, trie, stored, found >>

\* try_answer_from_local, second branch, and get_cache up to its loop: the
\* KV lists the keys under the question's prefix, or the listing fails.
CacheList(r) ==
    LET t == task[r]
        q == t.questions[t.qi]
    IN  /\ t.pc = "local"
        /\ ~IsSome(try_resolve(resolver, q))
        /\ \E list_ok \in BOOLEAN :
             LET keys == IF list_ok THEN list_prefix(kv, question_to_key_prefix(q))
                         ELSE << >>
                 t1 == [t EXCEPT !.looked = @ \cup {t.qi},
                                 !.lookup = [qi |-> t.qi, listed |-> Len(keys),
                                             skipped |-> 0, parsed |-> 0,
                                             unparsed |-> FALSE]]
             IN  Forward(r,
                     IF Len(keys) = 0 THEN not_answered(t1, retries)
                     ELSE [t1 EXCEPT !.pc = "get", !.keys = keys, !.ki = 1,
                                     !.ret = << >>])
        /\ UNCHANGED << resolver, retries, now, kv, received, trie, stored, found >>

\* A value that does not parse passed over like a stale key.
get_cache_unparsed_skip(t, n) ==
    IF t.ki < Len(t.keys) THEN [t EXCEPT !.ki = @ + 1]
    ELSE IF ~IsSome(get_cache_result(t.ret)) THEN not_answered(t, n)
    ELSE answered_by_cache(t, t.ret, n)

\* Line 85 of get_cache: .ok()? on a value that does not parse returns
\* None from get_cache, whatever the loop has collected.
get_cache_unparsed(t, n) == not_answered(t, n)

\* One round of the loop of get_cache, and what follows the last round.
CacheGet(r) ==
    LET t == task[r]
        q == t.questions[t.qi]
    IN  /\ t.pc = "get"
        /\ \E get_ok \in BOOLEAN, checks \in OverflowChecks :
             LET got == IF get_ok THEN kv_get(kv, t.keys[t.ki]) ELSE None
                 skip == ~IsSome(got) \/ ~IsSome(Unwrap(got).metadata)
                 entry == Unwrap(got)
                 overflow == sub_overflows(now, Unwrap(entry.metadata))
                 ttl == remaining_ttl(now, Unwrap(entry.metadata))
                 parsed == octets_to_owned_record_data(q.qtype, entry.value)
                 rec == Record_new(q.qname, q.qclass, ttl, q.qtype, parsed.val)
                 t1 == IF skip THEN [t EXCEPT !.lookup.skipped = @ + 1]
                       ELSE [t EXCEPT !.last_get =
                                Some([at |-> now, put_at |-> entry.put_at,
                                      put_ttl |-> entry.put_ttl,
                                      put_of |-> entry.put_of, asked |-> q,
                                      rec |-> IF parsed.ok THEN Some(rec) ELSE None]),
                                      !.lookup.unparsed = ~parsed.ok,
                                      !.lookup.parsed = IF parsed.ok THEN @ + 1 ELSE @]
                 t2 == IF skip THEN t1 ELSE [t1 EXCEPT !.ret = Append(@, rec)]
                 res == get_cache_result(t2.ret)
             IN  Forward(r,
                     IF ~skip /\ overflow /\ checks
                     THEN panic(t, "attempt to subtract with overflow")
                     ELSE IF ~skip /\ Aborts(parsed) THEN panic(t, parsed.err[1])
                     ELSE IF ~skip /\ ~parsed.ok THEN get_cache_unparsed(t1, retries)
                     ELSE IF t.ki < Len(t.keys) THEN [t2 EXCEPT !.ki = @ + 1]
                     ELSE IF ~IsSome(res) THEN not_answered(t2, retries)
                     ELSE answered_by_cache(t2, Unwrap(res), retries))
        /\ UNCHANGED << resolver, retries, now, kv, received, trie, stored, found >>

\* do_query from the fetch to the await of the response body (lines
\* 123-136).  The upstream is the one select_upstream chose.
Upstream(r) ==
    LET t == task[r]
    IN  /\ t.pc = "fetch"
        /\ \E url \in select_upstream(UpstreamUrls).val :
           \E outcome \in FetchOutcomes :
             LET t1 == [t EXCEPT !.sent = TRUE,
                                 !.late_call = @ \/ IsSome(t.first_ok)]
                 resp == do_query(outcome)
             IN  Return(r,
                     IF ~resp.ok
                     THEN FinishAttempt([t1 EXCEPT !.outcome = outcome], resp, retries)
                     ELSE [t1 EXCEPT !.pc = "recv"])
        /\ UNCHANGED << resolver, retries, now, kv, received, trie, stored, found >>

\* The rest of do_query, and query from the match on the RCODE to the
\* first put_cache of cache_answers.
UpstreamBody(r) ==
    LET t == task[r]
    IN  /\ t.pc = "recv"
        /\ \E outcome \in UpstreamOutcomes(t.remaining) :
             LET t1 == [t EXCEPT !.outcome = outcome]
                 resp == do_query(outcome)
             IN  Return(r,
                     IF ~resp.ok THEN FinishAttempt(t1, resp, retries)
                     ELSE IF outcome.rcode = "NOERROR"
                     THEN LET ret == extract_answers(resp.val)
                          IN  IF ~ret.ok THEN FinishAttempt(t1, ret, retries)
                              ELSE IF Len(cache_answers_arg(ret.val, t.answers)) = 0
                              THEN FinishAttempt(t1, noerror_result(ret.val, t.answers),
                                                 retries)
                              ELSE put_cache_call([t1 EXCEPT !.pc = "put",
                                                             !.upstream = ret.val,
                                                             !.pi = 1], now)
                     ELSE IF outcome.rcode = "NXDOMAIN"
                     THEN FinishAttempt(t1, nxdomain_result(t.answers), retries)
                     ELSE FinishAttempt(t1, other_rcode_result(outcome.rcode), retries))
        /\ UNCHANGED << resolver, retries, now, kv, received, trie, stored, found >>

\* cache_answers giving up at the first put the KV rejects.
cache_answers_next_abort(t, put_ok, n) ==
    IF ~put_ok THEN FinishAttempt(t, Err(<< "Failed to put to KV" >>), n)
    ELSE IF t.pi < Len(cache_answers_arg(t.upstream, t.answers))
    THEN [t EXCEPT !.pi = @ + 1]
    ELSE FinishAttempt(t, noerror_result(t.upstream, t.answers), n)

\* cache_answers after one put_cache: its result is dropped, the loop goes
\* on to the next record, and after the last one query returns the
\* upstream's answers followed by the local ones.
cache_answers_next(t, put_ok, n) ==
    IF t.pi < Len(cache_answers_arg(t.upstream, t.answers))
    THEN [t EXCEPT !.pi = @ + 1]
    ELSE FinishAttempt(t, noerror_result(t.upstream, t.answers), n)

\* One round of the loop of cache_answers: the KV settles the put of one
\* record, accepting or rejecting it; the next put_cache is called, or,
\* after the last, query returns.
CachePut(r) ==
    LET t == task[r]
        entry == put_cache(cache_answers_arg(t.upstream, t.answers)[t.pi],
                           t.put_ts, now)
    IN  /\ t.pc = "put"
        /\ \E put_ok \in BOOLEAN :
             LET t1 == [t EXCEPT !.puts = Append(@, [key |-> entry.key,
                                                     ttl |-> entry.expiration - now,
                                                     ok |-> put_ok]),
                                 !.put_ts = 0]
             IN  /\ kv' = IF put_ok THEN kv_put(kv, entry) ELSE kv
                 /\ Return(r, put_cache_call(cache_answers_next(t1, put_ok, retries),
                                             now))
        /\ UNCHANGED << resolver, retries, now, received, trie, stored, found >>

\* The response is handed to the runtime; the worker is free again.
Respond(r) ==
    /\ task[r].pc = "done"
    /\ task' = [task EXCEPT ![r] = IdleTask]
    /\ UNCHANGED << resolver, retries, now, kv, received, trie, stored, found >>

\* A second passes.
Tick ==
    /\ now < MaxTime
    /\ now' = now + 1
    /\ UNCHANGED << resolver, retries, kv, received, task, trie, stored, found >>

\* The KV evicts an entry whose expirationTtl has run out.
Expire ==
    /\ \E e \in kv :
         /\ e.expiration <= now
         /\ kv' = kv \ {e}
    /\ UNCHANGED << resolver, retries, now, received, task, trie, stored, found >>

Next ==
    \/ \E r \in Workers : Receive(r)
    \/ \E r \in Workers : Handle(r)
    \/ \E r \in Workers : ReadBody(r)
    \/ \E r \in Workers : ResolveOverride(r)
    \/ \E r \in Workers : CacheList(r)
    \/ \E r \in Workers : CacheGet(r)
    \/ \E r \in Workers : Upstream(r)
    \/ \E r \in Workers : UpstreamBody(r)
    \/ \E r \in Workers : CachePut(r)
    \/ \E r \in Workers : Respond(r)
    \/ Tick
    \/ Expire

Spec == Init /\ [][Next]_vars

\* ------------------------------------------------------------------------
\* Two invocations of the worker in flight at once, sharing the KV
\* ------------------------------------------------------------------------

ConcWorkers == {"w1", "w2"}

\* The requests of the concurrent runs: one for na.e, whose answers are
\* cached, and one an override answers.
ConcRequests ==
    { Post(Wire(Message_new(7, FALSE, TRUE, qs)), None) :
        qs \in { << Q(N_nae, "A") >>, << Q(N_xt, "A") >> } }

\* The server is configured with "retries": 1, one attempt per request.
InitConc ==
    /\ \E entries \in Enumerations(Overrides) :
           resolver = OverrideResolver_new(entries, OverrideTtl, BlocklistText)
    /\ retries = 1
    /\ now = 0
    /\ kv = {}
    /\ received = 0
    /\ task = [r \in ConcWorkers |-> IdleTask]
    /\ trie = TrieMap_new /\ stored = << >> /\ found = None

ReceiveConc(r) ==
    /\ task[r].pc = "idle"
    /\ received < MaxRequests
    /\ received' = received + 1
    /\ \E req \in ConcRequests :
         task' = [task EXCEPT ![r] = handle_request_rs(req)]
    /\ UNCHANGED << resolver, retries, now, kv, trie, stored, found >>

NextConc ==
    \/ \E r \in ConcWorkers : ReceiveConc(r)
    \/ \E r \in ConcWorkers : Handle(r)
    \/ \E r \in ConcWorkers : ReadBody(r)
    \/ \E r \in ConcWorkers : ResolveOverride(r)
    \/ \E r \in ConcWorkers : CacheList(r)
    \/ \E r \in ConcWorkers : CacheGet(r)
    \/ \E r \in ConcWorkers : Upstream(r)
    \/ \E r \in ConcWorkers : UpstreamBody(r)
    \/ \E r \in ConcWorkers : CachePut(r)
    \/ \E r \in ConcWorkers : Respond(r)
    \/ Tick
    \/ Expire

SpecConc == InitConc /\ [][NextConc]_vars

\* ------------------------------------------------------------------------
\* One invocation at a time, asked for record types other than A
\* ------------------------------------------------------------------------

\* The requests of these runs: a TXT question whose answers are cached;
\* questions of every type the override resolver handles, for a name with
\* an exact entry (x.t, IPv4; v.t, IPv6), a blocklisted name (z.t) and a
\* name under a wildcard (b.a.e); and questions of other types for such
\* names; and A questions for n.e and for a name whose presentation form
\* starts with the cache key prefix of n.e.
QtypeRequests ==
    { Post(Wire(Message_new(7, FALSE, TRUE, qs)), None) :
        qs \in { << Q(N_cbae, "TXT") >>,
                 << Q(N_xt, "A") >>, << Q(N_xt, "AAAA") >>, << Q(N_xt, "A6") >>,
                 << Q(N_xt, "CNAME") >>, << Q(N_xt, "ANY") >>,
                 << Q(N_vt, "A") >>, << Q(N_vt, "CNAME") >>,
                 << Q(N_zt, "AAAA") >>, << Q(N_bae, "ANY") >>,
                 << Q(N_xt, "TXT") >>, << Q(N_zt, "MX") >>, << Q(N_bae, "NS") >>,
                 << Q(N_kae, "PTR") >>,
                 << Q(N_ne, "A") >>, << Q(N_ne_semi, "A") >> } }

\* The server is configured with "retries": 1.
InitQtype ==
    /\ \E entries \in Enumerations(Overrides) :
           resolver = OverrideResolver_new(entries, OverrideTtl, BlocklistText)
    /\ retries = 1
    /\ now = 0
    /\ kv = {}
    /\ received = 0
    /\ task = [r \in Workers |-> IdleTask]
    /\ trie = TrieMap_new /\ stored = << >> /\ found = None

ReceiveQtype(r) ==
    /\ task[r].pc = "idle"
    /\ received < MaxRequests
    /\ received' = received + 1
    /\ \E req \in QtypeRequests :
         task' = [task EXCEPT ![r] = handle_request_rs(req)]
    /\ UNCHANGED << resolver, retries, now, kv, trie, stored, found >>

NextQtype ==
    \/ \E r \in Workers : ReceiveQtype(r)
    \/ \E r \in Workers : Handle(r)
    \/ \E r \in Workers : ReadBody(r)
    \/ \E r \in Workers : ResolveOverride(r)
    \/ \E r \in Workers : CacheList(r)
    \/ \E r \in Workers : CacheGet(r)
    \/ \E r \in Workers : Upstream(r)
    \/ \E r \in Workers : UpstreamBody(r)
    \/ \E r \in Workers : CachePut(r)
    \/ \E r \in Workers : Respond(r)
    \/ Tick
    \/ Expire

SpecQtype == InitQtype /\ [][NextQtype]_vars

\* ------------------------------------------------------------------------
\* Two invocations in flight at once, each with a second attempt to make
\* ------------------------------------------------------------------------

\* The requests of these runs: x.t, which an override answers, and na.e,
\* whose answers are cached, asked together.
RetryRequests ==
    { Post(Wire(Message_new(7, FALSE, TRUE, << Q(N_xt, "A"), Q(N_re, "A") >>)), None) }

\* The server is configured with "retries": 2.
\* config.json "overrides" with the one entry the request meets.
RetryOverrides == { << << "x", ".", "t" >>, << "1", "9", "2", ".", "0", ".", "2", ".", "9" >> >> }

InitRetry ==
    /\ \E entries \in Enumerations(RetryOverrides) :
           resolver = OverrideResolver_new(entries, OverrideTtl, BlocklistText)
    /\ retries = 2
    /\ now = 0
    /\ kv = {}
    /\ received = 0
    /\ task = [r \in ConcWorkers |-> IdleTask]
    /\ trie = TrieMap_new /\ stored = << >> /\ found = None

ReceiveRetry(r) ==
    /\ task[r].pc = "idle"
    /\ received < MaxRequests
    /\ received' = received + 1
    /\ \E req \in RetryRequests :
         task' = [task EXCEPT ![r] = handle_request_rs(req)]
    /\ UNCHANGED << resolver, retries, now, kv, trie, stored, found >>

NextRetry ==
    \/ \E r \in ConcWorkers : ReceiveRetry(r)
    \/ \E r \in ConcWorkers : Handle(r)
    \/ \E r \in ConcWorkers : ReadBody(r)
    \/ \E r \in ConcWorkers : ResolveOverride(r)
    \/ \E r \in ConcWorkers : CacheList(r)
    \/ \E r \in ConcWorkers : CacheGet(r)
    \/ \E r \in ConcWorkers : Upstream(r)
    \/ \E r \in ConcWorkers : UpstreamBody(r)
    \/ \E r \in ConcWorkers : CachePut(r)
    \/ \E r \in ConcWorkers : Respond(r)
    \/ Tick
    \/ Expire

SpecRetry == InitRetry /\ [][NextRetry]_vars

\* ------------------------------------------------------------------------
\* A writer whose clock is ahead
\* ------------------------------------------------------------------------
\* Date::now() is read on the machine that runs the invocation.  Another
\* invocation, on a machine whose clock is up to MaxSkew seconds ahead of
\* this one's, caches a record: its created_ts is later than the time at
\* which this worker may read it.

MaxSkew == 2

SkewRequests ==
    { Post(Wire(Message_new(7, FALSE, TRUE, qs)), None) :
        qs \in { << Q(N_nae, "A") >>, << Q(N_xt, "A") >> } }

SkewRecords ==
    { Record_new(N_nae, "IN", ttl, "A", RdataFor("A")[1]) : ttl \in 1..2 }

InitSkew ==
    /\ \E entries \in Enumerations(Overrides) :
           resolver = OverrideResolver_new(entries, OverrideTtl, BlocklistText)
    /\ retries = 1
    /\ now = 0
    /\ kv = {}
    /\ received = 0
    /\ task = [r \in Workers |-> IdleTask]
    /\ trie = TrieMap_new /\ stored = << >> /\ found = None

ReceiveSkew(r) ==
    /\ task[r].pc = "idle"
    /\ received < MaxRequests
    /\ received' = received + 1
    /\ \E req \in SkewRequests :
         task' = [task EXCEPT ![r] = handle_request_rs(req)]
    /\ UNCHANGED << resolver, retries, now, kv, trie, stored, found >>

\* put_cache of the other invocation, once the cache is empty.
SkewedPut ==
    /\ kv = {}
    /\ \E record \in SkewRecords, skew \in 1..MaxSkew :
         kv' = kv_put(kv, put_cache_skewed(record, now, skew))
    /\ UNCHANGED << resolver, retries, now, received, task, trie, stored, found >>

NextSkew ==
    \/ \E r \in Workers : ReceiveSkew(r)
    \/ \E r \in Workers : Handle(r)
    \/ \E r \in Workers : ReadBody(r)
    \/ \E r \in Workers : ResolveOverride(r)
    \/ \E r \in Workers : CacheList(r)
    \/ \E r \in Workers : CacheGet(r)
    \/ \E r \in Workers : Upstream(r)
    \/ \E r \in Workers : UpstreamBody(r)
    \/ \E r \in Workers : CachePut(r)
    \/ \E r \in Workers : Respond(r)
    \/ Tick
    \/ Expire
    \/ SkewedPut

SpecSkew == InitSkew /\ [][NextSkew]_vars

\* ------------------------------------------------------------------------
\* A TrieMap on its own: any sequence of put_prefix and get_prefix
\* ------------------------------------------------------------------------

\* The keys put: the empty key, keys that are prefixes of one another, and
\* keys that part at the first and at the second byte.
TrieKeys ==
    { << >>, << "a" >>, << "a", "b" >>, << "a", "b", "c" >>, << "a", "c" >>, << "b" >> }

\* The keys looked up: those put, and keys never put.
LookupKeys ==
    TrieKeys \cup { << "c" >>, << "a", "c", "b" >>, << "b", "a" >> }

TrieValues == {1, 2}

InitTrie ==
    /\ resolver = OverrideResolver_new(<< >>, OverrideTtl, << >>)
    /\ retries = 0
    /\ now = 0
    /\ kv = {}
    /\ received = 0
    /\ task = [r \in Workers |-> IdleTask]
    /\ trie = TrieMap_new /\ stored = << >> /\ found = None

\* TrieMap::put_prefix(prefix, value).
TriePut(prefix, value) ==
    /\ Len(stored) < MaxPuts
    /\ trie' = put_prefix(trie, prefix, value)
    /\ stored' = Append(stored, << prefix, value >>)
    /\ found' = None
    /\ UNCHANGED << resolver, retries, now, kv, received, task >>

\* TrieMap::get_prefix(prefix): the trie is borrowed immutably.
TrieGet(prefix) ==
    /\ found' = Some([key |-> prefix, value |-> get_prefix(trie, prefix)])
    /\ UNCHANGED << resolver, retries, now, kv, received, task, trie, stored >>

NextTrie ==
    \/ \E prefix \in TrieKeys, value \in TrieValues : TriePut(prefix, value)
    \/ \E prefix \in LookupKeys : TrieGet(prefix)

SpecTrie == InitTrie /\ [][NextTrie]_vars

\* ------------------------------------------------------------------------
\* Claims
\* ------------------------------------------------------------------------

\* A worker is inside query_with_retry or has left it.
InRequest(t) == t.pc \notin {"idle"} /\ Len(t.questions) > 0

\* Upstream calls the request has made so far.
Calls(t) ==
    Cardinality({i \in 1..Len(t.attempts) : t.attempts[i].sent})
    + (IF t.pc \in {"local", "get", "fetch", "recv", "put"} /\ t.sent THEN 1 ELSE 0)

\* The local answers of the current attempt in question order, as logged.
RECURSIVE LoggedLocal(_)
LoggedLocal(qlog) ==
    IF Len(qlog) = 0 THEN << >> ELSE Head(qlog).recs \o LoggedLocal(Tail(qlog))

\* The configuration as the specification reads it: the exact entries and
\* the wildcard entries whose value is an address, the blocklisted names.
ExactNames ==
    {e[1] : e \in {x \in Overrides : ~starts_with(x[1], << "*", "." >>)
                                      /\ parse_IpAddr(x[2]).ok}}

Wildcards ==
    {[suffix |-> Tail(e[1]), addr |-> parse_IpAddr(e[2]).val] :
        e \in {x \in Overrides : starts_with(x[1], << "*", "." >>)
                                  /\ parse_IpAddr(x[2]).ok}}

BlockedNames == {<< "k", ".", "a", ".", "e" >>, << "x", ".", "t" >>, << "z", ".", "t" >>}

\* The wildcards whose ".S" the name ends in, and the longest of them.
MatchingWildcards(name) == {w \in Wildcards : IsSuffix(w.suffix, name)}

LongestWildcard(name) ==
    CHOOSE w \in MatchingWildcards(name) :
        \A o \in MatchingWildcards(name) : Len(o.suffix) <= Len(w.suffix)

\* Some override table has an entry for the question.
HasOverride(q) ==
    LET name == dname_to_string(q.qname)
    IN  /\ q.qtype \in {"A", "AAAA", "A6", "CNAME", "ANY"}
        /\ \/ name \in ExactNames
           \/ name \in BlockedNames
           \/ MatchingWildcards(name) # {}

\* C1: every record get_cache makes of an entry put at time t0 with TTL tau
\* and read at time t carries the TTL max(0, tau - (t - t0)).
C1_ResidualTtl ==
    \A r \in Workers :
        LET g == task[r].last_get
        IN  IsSome(g) /\ IsSome(Unwrap(g).rec) =>
                Unwrap(Unwrap(g).rec).ttl =
                    Max(0, Unwrap(g).put_ttl - (Unwrap(g).at - Unwrap(g).put_at))

\* An entry put with TTL 2 is read one second later and yields TTL 1, and
\* the record is in the request's answers.
C1_Witness ==
    \E r \in Workers :
        LET g == task[r].last_get
        IN  /\ task[r].pc = "done"
            /\ IsSome(g) /\ IsSome(Unwrap(g).rec)
            /\ Unwrap(g).put_ttl = 2
            /\ Unwrap(g).at = Unwrap(g).put_at + 1
            /\ Unwrap(Unwrap(g).rec).ttl = 1
            /\ task[r].last_res.ok
            /\ Unwrap(Unwrap(g).rec) \in Range(task[r].last_res.val)

\* The first attempt of the request forwarded its question.
FirstAttemptForwarded(t) ==
    IF Len(t.attempts) >= 1 THEN t.attempts[1].sent
    ELSE t.pc \in {"fetch", "recv", "put"}

\* C2: a request of one question that neither an override nor the cache
\* answers makes at most `retries` upstream calls, none after an attempt
\* that succeeded, and exactly one when its first attempt succeeds.
C2_UpstreamCalls ==
    \A r \in Workers :
        LET t == task[r]
        IN  InRequest(t) /\ Len(t.questions) = 1 /\ retries >= 1
            /\ FirstAttemptForwarded(t) =>
                /\ Calls(t) <= retries
                /\ ~t.late_call
                /\ (Len(t.attempts) >= 1 /\ t.attempts[1].ok =>
                        /\ t.pc = "done"
                        /\ Len(t.attempts) = 1
                        /\ Calls(t) = 1)

\* The first attempt fails, the second succeeds: two upstream calls.
C2_Witness ==
    \E r \in Workers :
        LET t == task[r]
        IN  /\ t.pc = "done" /\ Len(t.questions) = 1 /\ retries = 2
            /\ Len(t.attempts) = 2
            /\ t.attempts[1].sent /\ ~t.attempts[1].ok
            /\ t.attempts[2].sent /\ t.attempts[2].ok
            /\ Calls(t) = 2

\* C3: in every attempt a question an override answers is neither looked
\* up in the cache nor forwarded, a question the cache answers is not
\* forwarded, the upstream is called only after every question has been
\* tried locally, and not at all when every question was answered locally.
C3_LocalBeforeUpstream ==
    \A r \in Workers :
        LET t == task[r]
            local(i) == t.qlog[i].src \in {"override", "cache"}
        IN  InRequest(t) =>
            /\ \A i \in 1..Len(t.qlog) :
                 /\ HasOverride(t.questions[i]) => t.qlog[i].src = "override"
                 /\ t.qlog[i].src = "override" =>
                        i \notin t.looked /\ t.questions[i] \notin Range(t.remaining)
                 /\ t.qlog[i].src = "cache" =>
                        i \in t.looked /\ t.questions[i] \notin Range(t.remaining)
                 /\ t.qlog[i].src = "forward" => i \in t.looked
            /\ (t.sent \/ t.pc \in {"fetch", "recv", "put"}) =>
                 /\ Len(t.qlog) = Len(t.questions)
                 /\ \E i \in 1..Len(t.qlog) : ~local(i)
            /\ (Len(t.qlog) = Len(t.questions) /\ \A i \in 1..Len(t.qlog) : local(i)) =>
                 ~t.sent /\ t.pc = "done" /\ t.last_res = Ok(t.answers)

\* A request whose first question the cache answers and whose second an
\* override answers ends without an upstream call.
C3_Witness ==
    \E r \in Workers :
        LET t == task[r]
        IN  /\ t.pc = "done" /\ Len(t.qlog) = 2
            /\ t.qlog[1].src = "cache" /\ t.qlog[2].src = "override"
            /\ ~t.sent /\ Calls(t) = 0
            /\ t.response.status = 200

\* The error do_query or the RCODE match makes of an upstream outcome.
ErrorOf(outcome) ==
    CASE outcome.kind = "headers_new"    -> << "Could not create headers" >>
      [] outcome.kind = "headers_append" -> << "Could not append header" >>
      [] outcome.kind = "request_new"    -> << "Failed to create Request object" >>
      [] outcome.kind = "fetch_error"    -> << "Upstream request error" >>
      [] outcome.kind = "status"         ->
             << "Unknown response status", outcome.status >>
      [] outcome.kind = "no_body"        -> << "Cannot get body" >>
      [] outcome.kind = "body_error"     -> << "Failure receiving response body" >>
      [] outcome.kind = "bad_body"       -> << "Failed to parse DNS wireformat message" >>
      [] outcome.kind = "bad_answer_section" ->
             << "Failed to parse DNS answer from upstream" >>
      [] outcome.kind = "bad_answers"     -> << "Failed to parse DNS answer record" >>
      [] outcome.kind = "bad_record_data" -> << "Cannot parse record" >>
      [] outcome.kind = "bad_owner"       -> << "Failed to parse Dname" >>
      [] OTHER                            -> << "Server error:", outcome.rcode >>

\* C4: query_with_retry makes at most `retries` attempts; it returns the
\* result of the first attempt that succeeded, or, all having failed, the
\* error of the last; with retries = 0 it makes no attempt, touches neither
\* the overrides, the cache nor the upstream, and returns the error
\* "Dummy", which the response carries when the handler returns one.
C4_Retry ==
    \A r \in Workers :
        LET t == task[r]
        IN  InRequest(t) =>
            /\ t.attempt <= retries
            /\ Len(t.attempts) <= retries
            /\ t.pc = "done" =>
                 /\ Len(t.attempts) = t.attempt
                 /\ \A i \in 1..(Len(t.attempts) - 1) : ~t.attempts[i].ok
                 /\ IsSome(t.first_ok) =>
                        t.attempts[Len(t.attempts)].ok /\ t.last_res = Unwrap(t.first_ok)
                 /\ (~IsSome(t.first_ok) /\ retries > 0) =>
                        /\ Len(t.attempts) = retries
                        /\ t.last_res = Err(ErrorOf(t.outcome))
                 /\ retries = 0 =>
                        /\ t.last_res = Err(<< "Dummy" >>)
                        /\ t.attempts = << >> /\ t.qlog = << >> /\ t.looked = {}
                        /\ ~t.sent /\ t.puts = << >>
                        /\ ~t.panicked =>
                               t.response = err_response(<< "Dummy" >>, NoFault).val

\* Two attempts fail, the last with SERVFAIL, and that error is returned.
C4_Witness ==
    \E r \in Workers :
        LET t == task[r]
        IN  /\ t.pc = "done" /\ retries = 2 /\ Len(t.attempts) = 2
            /\ ~t.attempts[1].ok /\ ~t.attempts[2].ok
            /\ t.outcome.rcode = "SERVFAIL"
            /\ t.last_res = Err(<< "Server error:", "SERVFAIL" >>)

\* The attempt forwarded at least one question and answered another locally.
PartlyLocal(t) ==
    /\ \E i \in 1..Len(t.qlog) : t.qlog[i].src \in {"override", "cache"}
    /\ \E i \in 1..Len(t.qlog) : t.qlog[i].src = "forward"

\* No question of the attempt was answered by an override or the cache.
NoLocalMatch(t) ==
    /\ Len(t.qlog) = Len(t.questions)
    /\ \A i \in 1..Len(t.qlog) : t.qlog[i].src = "forward"

\* C5: when some questions of a request were answered locally and the
\* upstream answers the forwarded rest with NXDOMAIN, the result of the
\* resolution holds every locally obtained answer.
C5_NxdomainKeepsLocal ==
    \A r \in Workers :
        LET t == task[r]
        IN  t.pc = "done" /\ t.sent /\ t.outcome.rcode = "NXDOMAIN" /\ PartlyLocal(t) =>
                /\ t.last_res.ok
                /\ \A a \in Range(LoggedLocal(t.qlog)) : a \in Range(t.last_res.val)

\* C6: when the upstream answers the forwarded questions with NOERROR and
\* no record and nothing was answered locally, the response to the client
\* has no answer and the RCODE NOERROR.
C6_EmptyNoerror ==
    \A r \in Workers :
        LET t == task[r]
        IN  t.pc = "done" /\ t.sent /\ t.outcome.rcode = "NOERROR"
            /\ t.outcome.answers = << >> /\ NoLocalMatch(t)
            /\ t.response.status = 200 =>
                /\ t.response.body.answers = << >>
                /\ t.response.body.rcode = "NOERROR"

\* The 400 returned when the runtime does not make the headers of the 200.
CouldNotCreateHeaders ==
    [status |-> 400,
     headers |-> [NoHeaders EXCEPT
                     !.error_message = Some(<< "Could not create headers" >>)],
     body |-> << "Could not create headers" >>]

\* The response is that 400.
HeadersNotCreated(resp) == resp.status = 400 /\ resp = CouldNotCreateHeaders

\* The handler has ended in the panic of an unwrap() on a call of the
\* runtime that failed, without a response.
RuntimePanic(t) ==
    /\ t.pc = "done" /\ t.panicked
    /\ t.panic_why = "Result::unwrap"
    /\ t.response = NoResponse

\* C7, as amended: when the upstream answers with NXDOMAIN and no question
\* was answered locally, the response is a 200 with RCODE NXDOMAIN, no
\* answer and the request's questions in order, unless the request's
\* Accept header is exactly application/dns-json, when it is the 400
\* "JSON is not supported yet", or a call of the runtime fails while the
\* response is built, when the request ends in the 400 "Could not create
\* headers" or in a panic.
C7_NxdomainPassthrough ==
    \A r \in Workers :
        LET t == task[r]
        IN  t.pc = "done" /\ t.sent /\ t.outcome.rcode = "NXDOMAIN" /\ NoLocalMatch(t) =>
                IF t.panicked THEN RuntimePanic(t)
                ELSE IF t.req.accept = Some("application/dns-json")
                THEN t.response = [status |-> 400,
                                   headers |-> [NoHeaders EXCEPT !.error_message =
                                                   Some(<< "JSON is not supported yet" >>)],
                                   body |-> << "JSON is not supported yet" >>]
                ELSE \/ HeadersNotCreated(t.response)
                     \/ /\ t.response.status = 200
                        /\ t.response.body.rcode = "NXDOMAIN"
                        /\ t.response.body.answers = << >>
                        /\ t.response.body.questions = t.questions
                        /\ t.response.body.id = t.query_id

\* An NXDOMAIN of the upstream passed on in a 200.
C7_Witness ==
    \E r \in Workers :
        LET t == task[r]
        IN  /\ t.pc = "done" /\ t.sent /\ t.outcome.rcode = "NXDOMAIN" /\ NoLocalMatch(t)
            /\ t.response.status = 200
            /\ t.response.body.rcode = "NXDOMAIN"
            /\ t.response.body.questions = t.questions
            /\ Len(t.questions) >= 1

\* C7 as stated: on an NXDOMAIN of the upstream with no local match the
\* response is always the 200 with RCODE NXDOMAIN, no answer and the
\* questions echoed.
C7_AsStated ==
    \A r \in Workers :
        LET t == task[r]
        IN  t.pc = "done" /\ t.sent /\ t.outcome.rcode = "NXDOMAIN" /\ NoLocalMatch(t) =>
                /\ t.response.status = 200
                /\ t.response.body.rcode = "NXDOMAIN"
                /\ t.response.body.answers = << >>
                /\ t.response.body.questions = t.questions

\* C8: a record of TTL 0 the upstream returns is among the answers
\* returned, and no put of TTL 0 is ever issued to the KV.
C8_NoZeroTtlPut ==
    \A r \in Workers :
        LET t == task[r]
        IN  /\ t.pc = "done" /\ t.sent /\ t.outcome.kind = "message"
               /\ t.outcome.rcode = "NOERROR" =>
                /\ t.last_res.ok
                /\ \A i \in 1..Len(t.outcome.answers) :
                       t.outcome.answers[i].ttl = 0 =>
                           t.outcome.answers[i] \in Range(t.last_res.val)
            /\ \A i \in 1..Len(t.puts) : t.puts[i].ttl # 0

\* C9: on NOERROR the result is the upstream's answers in the upstream's
\* order followed by the local answers in question order, a cache hit
\* contributing all its records together: nothing lost, nothing twice.
C9_UpstreamThenLocal ==
    \A r \in Workers :
        LET t == task[r]
        IN  t.pc = "done" /\ t.sent /\ t.outcome.kind = "message"
            /\ t.outcome.rcode = "NOERROR" =>
                /\ t.last_res = Ok(t.outcome.answers \o LoggedLocal(t.qlog))
                /\ Len(t.last_res.val) =
                       Len(t.outcome.answers)
                       + Cardinality({i \in 1..Len(t.qlog) : t.qlog[i].src = "override"})
                       + Len(LoggedLocal(SelectSeq(t.qlog, LAMBDA e : e.src = "cache")))

\* A request of two questions: the cache answers the first with two
\* records, the second is forwarded and answered with one.
C9_Witness ==
    \E r \in Workers :
        LET t == task[r]
        IN  /\ t.pc = "done" /\ t.sent /\ t.outcome.rcode = "NOERROR"
            /\ Len(t.qlog) = 2
            /\ t.qlog[1].src = "cache" /\ Len(t.qlog[1].recs) = 2
            /\ t.qlog[2].src = "forward"
            /\ Len(t.outcome.answers) = 1
            /\ Len(t.last_res.val) = 3
            /\ t.last_res.val[1] = t.outcome.answers[1]
            /\ t.response.status = 200
            /\ t.response.body.answers = t.last_res.val

\* The record an override of the address makes for the question.
OverrideRecord(q, addr) ==
    Record_new(q.qname, q.qclass, OverrideTtl,
               IF addr.family = "V4" THEN "A" ELSE "AAAA", addr.octets)

\* C10, as amended: a question of a type the resolver handles whose name
\* has no exact override and is not on the blocklist is answered with the
\* address of the longest wildcard "*.S" whose ".S" its name ends in; a
\* name that ends in S but not in ".S", or is S itself, does not match; a
\* question no wildcard matches is looked up in the cache and forwarded
\* when the cache has nothing for it.
C10_Wildcard ==
    \A r \in Workers :
        LET t == task[r]
        IN  InRequest(t) =>
            \A i \in 1..Len(t.qlog) :
                LET q == t.questions[i]
                    name == dname_to_string(q.qname)
                IN  q.qtype \in {"A", "AAAA", "A6", "CNAME", "ANY"}
                    /\ name \notin ExactNames /\ name \notin BlockedNames =>
                        /\ MatchingWildcards(name) # {} =>
                               t.qlog[i] = [src |-> "override",
                                            recs |-> << OverrideRecord(q, LongestWildcard(name).addr) >>]
                        /\ MatchingWildcards(name) = {} =>
                               /\ t.qlog[i].src \in {"cache", "forward"}
                               /\ i \in t.looked
                               /\ t.qlog[i].src = "forward" <=> q \in Range(t.remaining)
                        /\ (\E w \in Wildcards : name = Tail(w.suffix)
                                /\ \A o \in Wildcards : ~IsSuffix(o.suffix, name)) =>
                               t.qlog[i].src # "override"
                        /\ q.qname = N_nae => t.qlog[i].src # "override"

\* na.e is not answered by "*.a.e", b.a.e is, with its address.
C10_Witness ==
    \E r \in Workers :
        LET t == task[r]
        IN  /\ t.pc = "done" /\ Len(t.qlog) = 2
            /\ t.questions[1].qname = N_nae /\ t.questions[2].qname = N_bae
            /\ t.qlog[1].src = "forward"
            /\ t.qlog[2].src = "override"
            /\ t.qlog[2].recs[1].data = parse_IpAddr(<< "1", "9", "2", ".", "0", ".", "2", ".", "1" >>).val.octets
            /\ t.sent

\* C10 as stated: a name with no exact override is answered with the
\* address of every wildcard "*.S" whose ".S" it ends in, and a name no
\* wildcard matches is forwarded.
C10_AsStated ==
    \A r \in Workers :
        LET t == task[r]
        IN  InRequest(t) =>
            \A i \in 1..Len(t.qlog) :
                LET q == t.questions[i]
                    name == dname_to_string(q.qname)
                IN  name \notin ExactNames =>
                        /\ \A w \in Wildcards : IsSuffix(w.suffix, name) =>
                               t.qlog[i] = [src |-> "override",
                                            recs |-> << OverrideRecord(q, w.addr) >>]
                        /\ (\A w \in Wildcards : ~IsSuffix(w.suffix, name)) =>
                               t.qlog[i].src = "forward"

\* C11: a key the KV listed whose get yields no value or no metadata is
\* skipped and the records of the other keys are still returned; when
\* every listed key is skipped, or none was listed, get_cache returns None,
\* never an empty list.
C11_StaleList ==
    \A r \in Workers :
        LET t == task[r]
            i == t.lookup.qi
        IN  /\ t.pc = "get" =>
                /\ i = t.qi
                /\ Len(t.ret) = (t.ki - 1) - t.lookup.skipped
            /\ (i >= 1 /\ i <= Len(t.qlog)) =>
                /\ t.qlog[i].src \in {"cache", "forward"}
                /\ t.lookup.skipped <= t.lookup.listed
                /\ t.qlog[i].src = "cache" =>
                       /\ Len(t.qlog[i].recs) >= 1
                       /\ Len(t.qlog[i].recs) = t.lookup.listed - t.lookup.skipped
                /\ t.qlog[i].src = "forward" =>
                       \/ t.lookup.listed = 0
                       \/ t.lookup.skipped = t.lookup.listed
                       \/ t.lookup.unparsed
                /\ (t.lookup.skipped < t.lookup.listed /\ ~t.lookup.unparsed) =>
                       t.qlog[i].src = "cache"
                /\ (t.pc = "done" /\ Len(t.questions) = 1 /\ t.response.status = 200
                    /\ t.qlog[i].src = "cache") =>
                       Len(t.response.body.answers) = t.lookup.listed - t.lookup.skipped

\* The KV lists two keys, the get of one yields nothing, and the response
\* holds exactly the one record of the other.
C11_Witness ==
    \E r \in Workers :
        LET t == task[r]
        IN  /\ t.pc = "done" /\ Len(t.questions) = 1
            /\ t.lookup.qi = 1 /\ t.lookup.listed = 2 /\ t.lookup.skipped = 1
            /\ t.qlog[1].src = "cache" /\ Len(t.qlog[1].recs) = 1
            /\ t.response.status = 200
            /\ Len(t.response.body.answers) = 1

\* C12: a cached record whose residual TTL is 0 and which the KV still
\* holds is a cache hit: it is returned with TTL 0, its question is not
\* forwarded, and the record is in the response the client gets.
C12_ZeroTtlHit ==
    \A r \in Workers :
        LET t == task[r]
        IN  InRequest(t) =>
            \A i \in 1..Len(t.qlog) :
                t.qlog[i].src = "cache" =>
                    \A k \in 1..Len(t.qlog[i].recs) :
                        LET rec == t.qlog[i].recs[k]
                        IN  rec.ttl = 0 =>
                                /\ rec \in Range(t.answers)
                                /\ t.questions[i] \notin Range(t.remaining)
                                /\ (t.pc = "done" /\ t.response.status = 200) =>
                                       rec \in Range(t.response.body.answers)

\* The octets of the DNS message a request carries, if it carries any.
RequestWire(req) ==
    IF req.method = "GET"
    THEN IF IsSome(req.dns) THEN Unwrap(req.dns).wire ELSE BadWire
    ELSE req.body

\* The request fails in DECODE: no message can be read from it.
DecodeFails(req) ==
    \/ req.method \notin {"GET", "POST"}
    \/ req.method = "GET" /\ (~req.url_ok \/ ~IsSome(req.dns) \/ ~Unwrap(req.dns).b64_ok)
    \/ req.method = "POST" /\ req.content_type # Some("application/dns-message")
    \/ req.method = "POST" /\ req.body_read # "ok"
    \/ ~RequestWire(req).valid

\* The message of the request fails in VALIDATE, and with what text.
ValidateError(msg) ==
    IF msg.qr THEN << "Not a DNS query" >>
    ELSE IF ~msg.rd THEN << "Non-recursive queries are not supported" >>
    ELSE IF msg.questions = << >> THEN << "No question provided" >>
    ELSE IF \E i \in 1..Len(msg.questions) : ~msg.questions[i].ok
         THEN << "Failed to parse domain name" >>
    ELSE << >>

ValidateFails(req) ==
    ~DecodeFails(req) /\ ValidateError(RequestWire(req).msg) # << >>

\* The planner was never entered for the request in hand.
PlannerUntouched(t) ==
    /\ t.attempt = 0 /\ t.attempts = << >>
    /\ t.qlog = << >> /\ t.looked = {} /\ t.lookup = NoLookup /\ t.last_get = None
    /\ ~t.sent /\ t.outcome = NoOutcome /\ t.puts = << >>

\* C13: a request whose message has QR = 1 or RD = 0 or no question or a
\* question that does not decode, like a request no message can be read
\* from, is answered with a 400 that says why, and with nothing else (the
\* handler returning no response at all when the runtime does not make
\* the 400, see C15), and the planner is never entered for it: no
\* override lookup, no KV operation, no upstream call.
C13_Validation ==
    \A r \in Workers :
        LET t == task[r]
        IN  t.pc # "idle" =>
            /\ DecodeFails(t.req) \/ ValidateFails(t.req) =>
                /\ t.pc \in {"start", "body", "done"}
                /\ PlannerUntouched(t)
                /\ (t.pc = "done" /\ t.panicked) => RuntimePanic(t)
                /\ (t.pc = "done" /\ ~t.panicked) =>
                    /\ t.response.status = 400
                    /\ t.response.headers.error_message = Some(t.response.body)
                    /\ t.response.body # << >>
            /\ (ValidateFails(t.req) /\ t.pc = "done" /\ ~t.panicked) =>
                t.response.body = ValidateError(RequestWire(t.req).msg)

\* A query with RD = 0 answered with the 400 that names the reason.
C13_Witness ==
    \E r \in Workers :
        LET t == task[r]
        IN  /\ t.pc = "done"
            /\ ValidateFails(t.req)
            /\ ~RequestWire(t.req).msg.rd
            /\ t.response.status = 400
            /\ t.response.body = << "Non-recursive queries are not supported" >>
            /\ PlannerUntouched(t)

\* The questions of the request's message, in its order.
RequestQuestions(req) ==
    LET qs == RequestWire(req).msg.questions
    IN  [i \in 1..Len(qs) |-> qs[i].val]

\* C14: every 200 response carries the transaction ID of the request,
\* QR = 1, Opcode QUERY, AA = 0, RA = 1, the request's questions in order
\* and exactly the records the planner returned in order; its RCODE is
\* NXDOMAIN if the planner returned no record and NOERROR otherwise.
C14_ResponseHeader ==
    \A r \in Workers :
        LET t == task[r]
            m == t.response.body
        IN  t.pc = "done" /\ t.response.status = 200 =>
                /\ t.last_res.ok
                /\ m.id = RequestWire(t.req).msg.id
                /\ m.qr /\ m.opcode = "QUERY" /\ ~m.aa /\ m.ra
                /\ m.questions = RequestQuestions(t.req)
                /\ m.answers = t.last_res.val
                /\ m.rcode \in {"NXDOMAIN", "NOERROR"}
                /\ m.rcode = "NXDOMAIN" <=> t.last_res.val = << >>

\* A response to query 7 with two questions and an answer, RCODE NOERROR.
C14_Witness ==
    \E r \in Workers :
        LET t == task[r]
            m == t.response.body
        IN  /\ t.pc = "done" /\ t.response.status = 200
            /\ m.id = 7 /\ RequestWire(t.req).msg.id = 7
            /\ Len(m.questions) = 2
            /\ Len(m.answers) >= 1 /\ m.answers = t.last_res.val
            /\ m.rcode = "NOERROR"

\* The two outcomes of a request.
IsSuccessResponse(resp) ==
    /\ resp.status = 200
    /\ resp.headers.content_type = Some("application/dns-message")
    /\ resp.headers.content_length = Some(message_octets_len(resp.body))
    /\ resp.headers.error_message = None

IsErrorResponse(resp) ==
    /\ resp.status = 400
    /\ resp.body # << >>
    /\ resp.headers.error_message = Some(resp.body)
    /\ resp.headers.content_type = None
    /\ resp.headers.content_length = None

\* A failure in DECODE, VALIDATE, PLAN (the upstream failing in the last
\* attempt included) or ENCODE.
RequestFailed(t) ==
    \/ DecodeFails(t.req) \/ ValidateFails(t.req)
    \/ ~t.last_res.ok
    \/ t.req.accept = Some("application/dns-json")

\* C15: every request ends in exactly one of two outcomes, a 200 with
\* Content-Type application/dns-message and a Content-Length equal to the
\* length of its body, or a 400 whose body is the text of its
\* error-message header; and a failure in DECODE, VALIDATE, PLAN (the
\* upstream failing in the last attempt included) or ENCODE ends in the
\* 400, never in a 200.  A request that ends in a panic of the handler
\* (an unwrap() of a failed call of the runtime, lines 21-27, 117, 138,
\* 141, 193, 197) has neither outcome.
C15_TwoOutcomes ==
    \A r \in Workers :
        LET t == task[r]
        IN  t.pc = "done" =>
                /\ IsSuccessResponse(t.response) \/ IsErrorResponse(t.response)
                /\ ~(IsSuccessResponse(t.response) /\ IsErrorResponse(t.response))
                /\ RequestFailed(t) => IsErrorResponse(t.response)

\* The question whose key prefix the key of a record falls under.
QuestionOf(rec) == Question_new(rec.owner, rec.rtype, rec.class)

\* The entries of a store under the key prefix of a record.
EntriesFor(store, rec) ==
    {x \in store : IsPrefix(question_to_key_prefix(QuestionOf(rec)), x.key)}

\* C16: with requests in flight in parallel, the KV holds one entry per
\* key, and every put the KV accepts, in whatever interleaving, leaves the
\* entries of all other keys as they were and its own value and metadata
\* under its key: an entry of the same owner, type and class but other
\* data is under another key and is kept, so that the listing of the
\* prefix then names both and a get yields both; an entry of the same data
\* is under the same key and is replaced by the last writer's.
C16_ConcurrentPuts ==
    /\ [](\A e1, e2 \in kv : e1.key = e2.key => e1 = e2)
    /\ [][\A r \in ConcWorkers :
            (task[r].pc = "put" /\ task'[r] # task[r]) =>
              LET rec == task[r].upstream[task[r].pi]
                  e == put_cache(rec, task[r].put_ts, now)
                  accepted == task'[r].puts[Len(task'[r].puts)].ok
              IN  IF ~accepted THEN kv' = kv
                  ELSE /\ kv_get(kv', e.key) = Some(e)
                       /\ e.value = rec.data
                       /\ e.metadata = Some([created_ts |-> task[r].put_ts,
                                              ttl |-> rec.ttl])
                       /\ \A x \in kv : x.key # e.key => x \in kv'
                       /\ \A x \in kv' : x = e \/ x \in kv
                       /\ \A x \in EntriesFor(kv, rec) :
                              /\ x.value # rec.data => x.key # e.key /\ x \in kv'
                              /\ x.value = rec.data =>
                                     x.key = e.key /\ (x = e \/ x \notin kv')
                       /\ Range(list_prefix(kv', question_to_key_prefix(QuestionOf(rec))))
                              = {x.key : x \in EntriesFor(kv, rec)} \cup {e.key}
                       /\ \A k \in Range(list_prefix(kv', question_to_key_prefix(QuestionOf(rec)))) :
                              IsSome(kv_get(kv', k))
         ]_vars

\* Two requests in flight have each put a record of na.e/A/IN, of
\* different data: the KV holds both, and the prefix lists both keys.
C16_Witness ==
    \E e1, e2 \in kv :
        /\ e1.key # e2.key /\ e1.value # e2.value
        /\ e1.put_of = e2.put_of
        /\ task["w1"].pc # "idle" /\ task["w2"].pc # "idle"
        /\ \E i \in 1..Len(task["w1"].puts) :
               task["w1"].puts[i].key = e1.key /\ task["w1"].puts[i].ok
        /\ \E i \in 1..Len(task["w2"].puts) :
               task["w2"].puts[i].key = e2.key /\ task["w2"].puts[i].ok
        /\ \A i \in 1..Len(task["w1"].puts) : task["w1"].puts[i].key # e2.key
        /\ Len(list_prefix(kv, question_to_key_prefix(e1.put_of))) = 2

\* The ASCII letters, and a name with its upper-case letters folded.
UpperCase == << "A", "B", "C", "D", "E", "F", "G", "H", "I", "J", "K", "L", "M",
                "N", "O", "P", "Q", "R", "S", "T", "U", "V", "W", "X", "Y", "Z" >>

LowerCase == << "a", "b", "c", "d", "e", "f", "g", "h", "i", "j", "k", "l", "m",
                "n", "o", "p", "q", "r", "s", "t", "u", "v", "w", "x", "y", "z" >>

ToLowerChar(c) ==
    IF \E i \in 1..Len(UpperCase) : UpperCase[i] = c
    THEN LowerCase[CHOOSE i \in 1..Len(UpperCase) : UpperCase[i] = c]
    ELSE c

ToLowerName(name) ==
    [i \in 1..Len(name) |-> [j \in 1..Len(name[i]) |-> ToLowerChar(name[i][j])]]

ToLowerQuestion(q) == Question_new(ToLowerName(q.qname), q.qtype, q.qclass)

\* C17: two questions whose names differ in letter case only get the same
\* override result (exact, blocklist, wildcard) and the same cache key
\* prefix: a question is answered by an override whenever its lower-case
\* form is, with the same address, and is looked up under the prefix of
\* its lower-case form.
C17_CaseInsensitive ==
    \A r \in Workers :
        LET t == task[r]
        IN  InRequest(t) =>
            \A i \in 1..Len(t.qlog) :
                LET q == t.questions[i]
                    lq == ToLowerQuestion(q)
                    ans == try_resolve(resolver, lq)
                IN  /\ IsSome(ans) =>
                        /\ t.qlog[i].src = "override"
                        /\ t.qlog[i].recs[1].data = Unwrap(ans).data
                    /\ question_to_key_prefix(q) = question_to_key_prefix(lq)

\* C18: a request whose Accept header is exactly application/dns-json ends
\* in a 400 (the one that says JSON is not supported when the planner
\* succeeded); a request whose Accept header is application/dns-message or
\* anything else, or that has none, is answered in wire format when the
\* planner succeeded and the runtime made the headers of the 200.  (Stated
\* of the requests the handler returns a response for, see C15.)
C18_AcceptNegotiation ==
    \A r \in Workers :
        LET t == task[r]
            planned == ~DecodeFails(t.req) /\ ~ValidateFails(t.req) /\ t.last_res.ok
        IN  /\ (t.pc = "done" /\ t.panicked) => RuntimePanic(t)
            /\ (t.pc = "done" /\ ~t.panicked) =>
                /\ t.req.accept = Some("application/dns-json") =>
                    /\ IsErrorResponse(t.response)
                    /\ planned => t.response.body = << "JSON is not supported yet" >>
                /\ (t.req.accept # Some("application/dns-json") /\ planned) =>
                    \/ HeadersNotCreated(t.response)
                    \/ /\ IsSuccessResponse(t.response)
                       /\ t.response.body =
                              build_answer_wireformat(t.query_id, t.questions,
                                                      t.last_res.val).val

\* The planner answers a request that asks for application/dns-json, and
\* the request ends in the 400.
C18_Witness ==
    \E r \in Workers :
        LET t == task[r]
        IN  /\ t.pc = "done"
            /\ t.req.accept = Some("application/dns-json")
            /\ t.sent /\ t.last_res.ok /\ Len(t.last_res.val) = 1
            /\ t.response.status = 400
            /\ t.response.body = << "JSON is not supported yet" >>

\* The upstream's answer makes the attempt fail: a network failure, a
\* status other than 200, a body or an answer section that does not parse,
\* an RCODE other than NOERROR and NXDOMAIN.
FailingOutcome(o) ==
    \/ o.kind \in {"fetch_error", "status", "no_body", "body_error", "bad_body",
                   "bad_answer_section", "bad_answers", "bad_record_data",
                   "bad_owner"}
    \/ o.kind = "message" /\ o.rcode \notin {"NOERROR", "NXDOMAIN"}

\* The query could not be handed to fetch: no upstream was called.
SetupFailure(o) == o.kind \in {"headers_new", "headers_append", "request_new"}

\* The errors of the failing answers of the upstream.
UpstreamErrors ==
    { << "Upstream request error" >>,
      << "Unknown response status", 502 >>,
      << "Unknown response status", 503 >>,
      << "Cannot get body" >>,
      << "Failure receiving response body" >>,
      << "Failed to parse DNS wireformat message" >>,
      << "Failed to parse DNS answer from upstream" >>,
      << "Failed to parse DNS answer record" >>,
      << "Cannot parse record" >>,
      << "Failed to parse Dname" >>,
      << "Server error:", "SERVFAIL" >> }

\* The errors of a query that could not be handed to fetch.
SetupErrors ==
    { << "Could not create headers" >>,
      << "Could not append header" >>,
      << "Failed to create Request object" >> }

\* C19: an attempt fails when the upstream's status is not 200, on a
\* network or parse failure and on every RCODE other than NOERROR and
\* NXDOMAIN, and the next attempt follows while attempts remain; on
\* NXDOMAIN the attempt succeeds with no record of the upstream and is not
\* retried; on NOERROR it succeeds with the answer section, empty or not.
C19_UpstreamClassification ==
    \A r \in Workers :
        LET t == task[r]
            o == t.outcome
            n == Len(t.attempts)
        IN  InRequest(t) =>
            /\ (t.pc = "done" /\ t.sent) =>
                /\ FailingOutcome(o) =>
                       /\ t.last_res = Err(ErrorOf(o))
                       /\ ~t.attempts[n].ok
                       /\ n = retries
                /\ (o.kind = "message" /\ o.rcode = "NXDOMAIN") =>
                       /\ t.last_res.ok /\ t.attempts[n].ok
                       /\ \A rec \in Range(t.last_res.val) : rec \in Range(t.answers)
                /\ (o.kind = "message" /\ o.rcode = "NOERROR") =>
                       /\ t.last_res.ok /\ t.attempts[n].ok
                       /\ SubSeq(t.last_res.val, 1, Len(o.answers)) = o.answers
            /\ \A i \in 1..n :
                /\ t.attempts[i].ok => i = n /\ t.pc = "done"
                /\ (~t.attempts[i].ok /\ i < retries) => t.attempt > i
            /\ (n >= 1 /\ ~t.attempts[n].ok) =>
                /\ ~t.last_res.ok
                /\ t.attempts[n].sent => t.last_res.err \in UpstreamErrors
                /\ ~t.attempts[n].sent => t.last_res.err \in SetupErrors
            /\ (t.pc # "done" /\ n >= 1) => ~t.attempts[n].ok

\* The upstream answered the first attempt with SERVFAIL and the second
\* attempt is under way.
C19_Witness ==
    \E r \in Workers :
        LET t == task[r]
        IN  /\ t.pc \in {"local", "fetch"} /\ retries = 2
            /\ t.attempt = 2
            /\ t.attempts = << [sent |-> TRUE, ok |-> FALSE] >>
            /\ t.last_res = Err(<< "Server error:", "SERVFAIL" >>)

\* The keys of the puts to be issued for the records, in the records' order.
PutKeys(records) == [i \in 1..Len(records) |-> put_cache(records[i], 0, 0).key]

\* C20: on a NOERROR answer of the upstream a put is issued for every
\* record of the answer section, in order, before query returns; a put
\* the KV rejects does not stop the puts after it, does not change the
\* records returned and does not make the request fail: the request ends
\* in an error only for a reason that is not the put (the JSON format
\* asked for, or a call of the runtime failing while the response is
\* built).
C20_PutsIgnoreFailure ==
    \A r \in Workers :
        LET t == task[r]
            o == t.outcome
        IN  /\ t.pc = "put" =>
                /\ o.kind = "message" /\ o.rcode = "NOERROR"
                /\ t.upstream = o.answers
                /\ Len(t.attempts) = t.attempt - 1
                /\ Len(t.puts) = t.pi - 1
                /\ \A i \in 1..Len(t.puts) : t.puts[i].key = PutKeys(o.answers)[i]
            /\ (t.pc = "done" /\ t.sent /\ o.kind = "message" /\ o.rcode = "NOERROR") =>
                /\ Len(t.puts) = Len(o.answers)
                /\ \A i \in 1..Len(t.puts) : t.puts[i].key = PutKeys(o.answers)[i]
                /\ t.last_res = Ok(o.answers \o t.answers)
                /\ t.attempts[Len(t.attempts)].ok
                /\ t.panicked => RuntimePanic(t)
                /\ IsErrorResponse(t.response) =>
                       \/ get_response_format(t.req, NoFault).val = "JsonFormat"
                       \/ HeadersNotCreated(t.response)

\* The KV rejected the put of the first of two records and accepted the
\* put of the second; the request was answered with both.
C20_Witness ==
    \E r \in Workers :
        LET t == task[r]
        IN  /\ t.pc = "done" /\ t.sent
            /\ t.outcome.kind = "message" /\ t.outcome.rcode = "NOERROR"
            /\ Len(t.outcome.answers) = 2
            /\ Len(t.puts) = 2 /\ ~t.puts[1].ok /\ t.puts[2].ok
            /\ IsSuccessResponse(t.response)
            /\ t.response.body.answers = t.outcome.answers \o t.answers

\* The questions of the requests, and the records an upstream may answer
\* them with.
AllQuestions ==
    UNION {{qs[i].val : i \in 1..Len(qs)} : qs \in QuestionLists}

UpstreamRecords ==
    UNION {Range(a) : a \in UNION {UpstreamAnswers(<< q >>) : q \in AllQuestions}}

\* C21: no put is issued in an attempt whose upstream call ended in
\* NXDOMAIN, another RCODE than NOERROR, or an HTTP or parse error, nor in
\* an attempt that made no upstream call; the KV gains or changes an entry
\* only by the put of a record of a NOERROR answer of the upstream, never
\* of a record an override made or the cache returned.
C21_NoNegativeCaching ==
    /\ [](\A r \in Workers :
            LET t == task[r]
                o == t.outcome
            IN  InRequest(t) =>
                /\ t.puts # << >> =>
                       t.sent /\ o.kind = "message" /\ o.rcode = "NOERROR"
                /\ Len(t.puts) <= Len(o.answers)
                /\ \A i \in 1..Len(t.puts) : t.puts[i].key = PutKeys(o.answers)[i]
                /\ (~t.sent \/ FailingOutcome(o) \/ o.rcode = "NXDOMAIN") =>
                       t.puts = << >> /\ t.pc # "put")
    /\ [](\A e \in kv : \E rec \in UpstreamRecords : e = put_cache(rec, e.put_at, e.expiration - rec.ttl))
    /\ [][~(kv' \subseteq kv) =>
            \E r \in Workers :
                LET t == task[r]
                IN  /\ t.pc = "put" /\ t.sent
                    /\ t.outcome.kind = "message" /\ t.outcome.rcode = "NOERROR"
                    /\ kv' = kv_put(kv, put_cache(t.outcome.answers[t.pi], t.put_ts, now))
         ]_vars

\* An attempt in which an override answered one question and the upstream
\* answered the other with NXDOMAIN has ended, and the KV holds nothing.
C21_Witness ==
    \E r \in Workers :
        LET t == task[r]
        IN  /\ t.pc = "done" /\ t.sent
            /\ t.outcome.kind = "message" /\ t.outcome.rcode = "NXDOMAIN"
            /\ PartlyLocal(t)
            /\ t.puts = << >> /\ kv = {}

\* C22: when the value of one listed entry that is still in the KV does
\* not parse as data of the question's type, get_cache returns None, also
\* when values of other entries of the prefix had parsed: no record of the
\* cache is returned for the question, and the question is forwarded.
C22_UnparsedIsMiss ==
    \A r \in Workers :
        LET t == task[r]
            i == t.lookup.qi
        IN  InRequest(t) /\ t.lookup.unparsed =>
                /\ t.pc # "get"
                /\ i \in 1..Len(t.qlog)
                /\ t.qlog[i] = [src |-> "forward", recs |-> << >>]
                /\ t.questions[i] \in Range(t.remaining)
                /\ \A rec \in Range(t.answers) : QuestionOf(rec) # t.questions[i]
                /\ Len(t.qlog) = Len(t.questions) =>
                       t.pc = "fetch" \/ t.sent \/ SetupFailure(t.outcome)

\* The KV listed two entries for a TXT question; the value of the first
\* parsed, the value of the second did not, and the question was forwarded.
C22_Witness ==
    \E r \in Workers :
        LET t == task[r]
        IN  /\ t.pc = "done" /\ t.sent
            /\ t.lookup.qi = 1 /\ t.lookup.listed = 2 /\ t.lookup.skipped = 0
            /\ t.lookup.parsed = 1 /\ t.lookup.unparsed
            /\ t.questions[1].qtype = "TXT"
            /\ t.qlog[1].src = "forward"

\* The name is in some override table: exact, blocklist or wildcard.
InSomeTable(name) ==
    name \in ExactNames \/ name \in BlockedNames \/ MatchingWildcards(name) # {}

\* C23: the override resolver answers a question only when its type is A,
\* AAAA, A6, CNAME or ANY; a question of any other type gets None from
\* try_resolve whatever the exact map, the blocklist and the wildcards
\* hold for its name, and goes on to the cache and the upstream.
C23_HandledQtypes ==
    \A r \in Workers :
        LET t == task[r]
        IN  InRequest(t) =>
            \A i \in 1..Len(t.qlog) :
                LET q == t.questions[i]
                    name == dname_to_string(q.qname)
                IN  /\ t.qlog[i].src = "override" =>
                        q.qtype \in {"A", "AAAA", "A6", "CNAME", "ANY"}
                    /\ q.qtype \notin {"A", "AAAA", "A6", "CNAME", "ANY"} =>
                        /\ try_resolve(resolver, q) = None
                        /\ t.qlog[i].src \in {"cache", "forward"}
                        /\ i \in t.looked
                        /\ t.qlog[i].src = "forward" => q \in Range(t.remaining)
                    /\ (q.qtype \in {"A", "AAAA", "A6", "CNAME", "ANY"}
                        /\ InSomeTable(name)) =>
                        t.qlog[i].src = "override" /\ i \notin t.looked

\* A TXT question for x.t, a name with an exact override that is also on
\* the blocklist, was forwarded to the upstream.
C23_Witness ==
    \E r \in Workers :
        LET t == task[r]
        IN  /\ t.pc = "done" /\ t.sent
            /\ t.questions = << Question_new(N_xt, "TXT", "IN") >>
            /\ dname_to_string(N_xt) \in ExactNames
            /\ dname_to_string(N_xt) \in BlockedNames
            /\ t.qlog[1].src = "forward" /\ 1 \in t.looked

\* The address the configuration gives for an exact name.
ExactAddr(name) ==
    parse_IpAddr((CHOOSE e \in Overrides : e[1] = name)[2]).val

\* The keys of the entries whose value is no address.
IgnoredKeys == {e[1] : e \in {x \in Overrides : ~parse_IpAddr(x[2]).ok}}

\* C24: a question of a handled type is answered from the exact entry of
\* its name when there is one, else with A 0.0.0.0 and the override TTL
\* when the name is blocklisted, else from the longest wildcard matching
\* it; an entry whose value is no IP address is in no table, so that its
\* name is answered as if the entry were not there.
C24_Precedence ==
    /\ \A k \in IgnoredKeys :
          /\ HashMap_get(resolver.simple_matches, k) = None
          /\ \A addr \in {e[2] : e \in resolver.simple_matches} :
                 addr \in {parse_IpAddr(x[2]).val :
                              x \in {y \in Overrides : parse_IpAddr(y[2]).ok}}
    /\ \A r \in Workers :
        LET t == task[r]
        IN  InRequest(t) =>
            \A i \in 1..Len(t.qlog) :
                LET q == t.questions[i]
                    name == dname_to_string(q.qname)
                    answer(addr) == [src |-> "override",
                                     recs |-> << OverrideRecord(q, addr) >>]
                IN  q.qtype \in {"A", "AAAA", "A6", "CNAME", "ANY"} =>
                    /\ name \in ExactNames => t.qlog[i] = answer(ExactAddr(name))
                    /\ (name \notin ExactNames /\ name \in BlockedNames) =>
                           /\ t.qlog[i] = answer(Ipv4Addr_UNSPECIFIED)
                           /\ t.qlog[i].recs[1] =
                                  Record_new(q.qname, q.qclass, OverrideTtl, "A",
                                             << 0, 0, 0, 0 >>)
                    /\ (name \notin ExactNames /\ name \notin BlockedNames
                        /\ MatchingWildcards(name) # {}) =>
                           t.qlog[i] = answer(LongestWildcard(name).addr)
                    /\ (name \in IgnoredKeys /\ name \notin BlockedNames
                        /\ MatchingWildcards(name) = {}) =>
                           t.qlog[i].src # "override" /\ i \in t.looked

\* k.a.e, blocklisted and under the wildcard "*.a.e", is answered with
\* A 0.0.0.0 and the override TTL.
C24_Witness ==
    \E r \in Workers :
        LET t == task[r]
        IN  /\ t.pc = "done" /\ t.questions = << Question_new(N_kae, "A", "IN") >>
            /\ dname_to_string(N_kae) \in BlockedNames
            /\ MatchingWildcards(dname_to_string(N_kae)) # {}
            /\ t.response.status = 200
            /\ t.response.body.answers =
                   << Record_new(N_kae, "IN", OverrideTtl, "A", << 0, 0, 0, 0 >>) >>

\* C25: every record an override makes has the question's name as owner,
\* the question's class, the override TTL, and the type A when the
\* address mapped is IPv4 and AAAA when it is IPv6, whatever the type of
\* the question.
C25_OverrideRecord ==
    \A r \in Workers :
        LET t == task[r]
        IN  InRequest(t) =>
            \A i \in 1..Len(t.qlog) :
                t.qlog[i].src = "override" =>
                    LET q == t.questions[i]
                        rec == t.qlog[i].recs[1]
                    IN  /\ Len(t.qlog[i].recs) = 1
                        /\ rec.owner = q.qname
                        /\ rec.class = q.qclass
                        /\ rec.ttl = OverrideTtl
                        /\ rec.rtype \in {"A", "AAAA"}
                        /\ rec.rtype = "A" <=> Len(rec.data) = 4
                        /\ rec.rtype = "AAAA" <=> Len(rec.data) = 16
                        /\ \E e \in Overrides \cup {<< << >>, << "0", ".", "0", ".", "0", ".", "0" >> >>} :
                              /\ parse_IpAddr(e[2]).ok
                              /\ rec.data = parse_IpAddr(e[2]).val.octets
                              /\ rec.rtype = "A" <=> parse_IpAddr(e[2]).val.family = "V4"
                        /\ rec \in Range(t.answers)
                        /\ (t.pc = "done" /\ t.response.status = 200 /\ ~t.sent) =>
                               rec \in Range(t.response.body.answers)

\* A CNAME question for v.t, mapped to ::1, is answered with an AAAA
\* record of TTL 60.
C25_Witness ==
    \E r \in Workers :
        LET t == task[r]
        IN  /\ t.pc = "done" /\ t.questions = << Question_new(N_vt, "CNAME", "IN") >>
            /\ t.response.status = 200
            /\ t.response.body.answers =
                   << Record_new(N_vt, "IN", 60, "AAAA",
                                 << 0, 0, 0, 0, 0, 0, 0, 0, 0, 0, 0, 0, 0, 0, 0, 1 >>) >>

\* The keys put so far that are a prefix of the key, or the key itself.
PutPrefixesOf(log, key) ==
    {log[i][1] : i \in {j \in 1..Len(log) : IsPrefix(log[j][1], key)}}

\* The value of the last put of the key.
LastPut(log, key) ==
    log[CHOOSE i \in 1..Len(log) :
            /\ log[i][1] = key
            /\ \A j \in 1..Len(log) : log[j][1] = key => j <= i][2]

\* What a lookup of the key is to return after the puts of the log.
LongestPrefixValue(log, key) ==
    IF PutPrefixesOf(log, key) = {} THEN None
    ELSE LET longest == CHOOSE p \in PutPrefixesOf(log, key) :
                            \A o \in PutPrefixesOf(log, key) : Len(o) <= Len(p)
         IN  Some(LastPut(log, longest))

\* C26: after any sequence of puts a lookup returns the value last put for
\* the longest key put that is a prefix of the key looked up or the key
\* itself, and None when no key put is a prefix of it; a put of a key put
\* before replaces its value; the lookup of the empty key returns the
\* value of the root.
C26_LongestPrefix ==
    /\ IsSome(found) =>
           Unwrap(found).value = LongestPrefixValue(stored, Unwrap(found).key)
    /\ \A key \in LookupKeys : get_prefix(trie, key) = LongestPrefixValue(stored, key)
    /\ get_prefix(trie, << >>) = trie[1].value
    /\ \A i \in 1..Len(stored) :
           (\A j \in (i + 1)..Len(stored) : stored[j][1] # stored[i][1]) =>
               \E idx \in 1..Len(trie) :
                   /\ trie[idx].value = Some(stored[i][2])
                   /\ traverse_trie_mut(trie, 1, stored[i][1]) = << idx, << >> >>

\* "a" was put, then "ab", then "ab" again with another value; the lookup
\* of "abc" returns the value put last for "ab".
C26_Witness ==
    /\ Len(stored) = 3
    /\ stored[1][1] = << "a" >> /\ stored[2] = << << "a", "b" >>, 1 >>
    /\ stored[3] = << << "a", "b" >>, 2 >> /\ stored[1][2] = 1
    /\ found = Some([key |-> << "a", "b", "c" >>, value |-> Some(2)])

\* The key of the put a step makes, when it makes one.
PutKeyOfStep == stored'[Len(stored')][1]

\* C30: after any sequence of puts no node has two children of the same
\* label; a put of key k assigns the value of the node of k and no other,
\* keeps every node there was, and leaves the lookup of every key that
\* does not have k as a prefix as it was; a lookup does not change the
\* trie.
C30_TrieFrame ==
    /\ [](\A idx \in 1..Len(trie) :
            LET ch == trie[idx].children
            IN  /\ \A i, j \in 1..Len(ch) :
                       trie[ch[i]].label = trie[ch[j]].label => i = j
                /\ \A i \in 1..Len(ch) : ch[i] \in (idx + 1)..Len(trie))
    /\ [][stored' # stored =>
            LET k == PutKeyOfStep
                node == traverse_trie_mut(trie', 1, k)
            IN  /\ node[2] = << >>
                /\ trie'[node[1]].value = Some(stored'[Len(stored')][2])
                /\ Len(trie') >= Len(trie)
                /\ \A idx \in 1..Len(trie) :
                       /\ trie'[idx].label = trie[idx].label
                       /\ IsPrefix(trie[idx].children, trie'[idx].children)
                       /\ idx # node[1] => trie'[idx].value = trie[idx].value
                /\ \A idx \in (Len(trie) + 1)..Len(trie') :
                       idx # node[1] => trie'[idx].value = None
                /\ \A key \in LookupKeys :
                       ~IsPrefix(k, key) => get_prefix(trie', key) = get_prefix(trie, key)
         ]_vars
    /\ [][(found' # found /\ IsSome(found')) => trie' = trie /\ stored' = stored]_vars

\* "ab" is put into a trie that holds "a" and "ac" and a lookup follows:
\* the node of "a" has the two children "c" and "b".
C30_Witness ==
    /\ Len(stored) = 3
    /\ stored[1][1] = << "a" >> /\ stored[2][1] = << "a", "c" >>
    /\ stored[3][1] = << "a", "b" >>
    /\ Len(trie) = 4 /\ Len(trie[2].children) = 2
    /\ IsSome(found) /\ Unwrap(found).key = << "a", "c" >>

\* C27: an entry is stored under the key of its record's owner, type and
\* class, and get_cache of a question reads the entries put for records
\* of the question's name, type and class and no others: an entry put
\* for another name, type or class is not under the question's prefix and
\* is never made into a record for the question.
C27_KeyIsolation ==
    /\ \A e \in kv :
          /\ IsPrefix(question_to_key_prefix(e.put_of), e.key)
          /\ \A r \in Workers : \A i \in 1..Len(task[r].questions) :
                 IsPrefix(question_to_key_prefix(task[r].questions[i]), e.key) =>
                     e.put_of = task[r].questions[i]
    /\ \A r \in Workers :
          LET t == task[r]
          IN  IsSome(t.last_get) =>
                  Unwrap(t.last_get).put_of = Unwrap(t.last_get).asked

\* The questions the attempt has logged as forwarded, in question order.
LoggedForwarded(t) ==
    LET idx == SelectSeq([i \in 1..Len(t.qlog) |-> i],
                         LAMBDA i : t.qlog[i].src = "forward")
    IN  [k \in 1..Len(idx) |-> t.questions[idx[k]]]

\* C28: every attempt of query_with_retry takes the request's questions
\* from the first through the overrides and the cache again: its local
\* answers and the questions it forwards are those of its own lookups,
\* made on the KV as it is then, and nothing of a failed attempt is kept;
\* so an attempt that follows a failed upstream call can be answered from
\* the cache alone when another request has filled it in between.
C28_RetryReplans ==
    /\ [](\A r \in ConcWorkers :
            LET t == task[r]
            IN  (InRequest(t) /\ retries >= 1) =>
                /\ t.pc \in {"local", "get"} => Len(t.qlog) = t.qi - 1
                /\ t.pc \in {"fetch", "recv", "put", "done"} => Len(t.qlog) = Len(t.questions)
                /\ t.answers = LoggedLocal(t.qlog)
                /\ t.remaining = LoggedForwarded(t)
                /\ \A i \in 1..Len(t.qlog) :
                       t.qlog[i].src \in {"cache", "forward"} <=> i \in t.looked
                /\ (t.pc = "done" /\ ~t.sent /\ ~SetupFailure(t.outcome)) =>
                       t.last_res = Ok(LoggedLocal(t.qlog))
                /\ (t.pc = "done" /\ SetupFailure(t.outcome)) =>
                       ~t.sent /\ t.last_res = Err(ErrorOf(t.outcome))
                /\ (t.pc = "done" /\ t.sent /\ t.last_res.ok /\ t.last_res.val # << >>) =>
                       t.last_res = Ok(t.upstream \o LoggedLocal(t.qlog)))
    /\ [][\A r \in ConcWorkers :
            LET t == task[r]
                u == task'[r]
            IN  /\ (t.pc \notin {"idle", "done"} /\ u.attempt = t.attempt + 1) =>
                       /\ u.pc = "local" /\ u.qi = 1
                       /\ t.attempt >= 1 => u.questions = t.questions
                       /\ u.questions = extract_questions(parse_dns_body(u.req, NoFault).val).val
                       /\ u.answers = << >> /\ u.remaining = << >> /\ u.qlog = << >>
                       /\ u.looked = {}
                /\ (t.pc = "local" /\ u.pc = "get") =>
                       /\ u.keys = list_prefix(kv, question_to_key_prefix(t.questions[t.qi]))
                       /\ u.keys # << >>
                /\ (t.pc = "local" /\ u # t /\ u.lookup.qi = t.qi /\ u.lookup.listed > 0) =>
                       u.lookup.listed =
                           Len(list_prefix(kv, question_to_key_prefix(t.questions[t.qi])))
         ]_vars

\* The first attempt of a request called the upstream and failed; the
\* second was answered by an override and by the cache, which another
\* request had filled, without an upstream call.
C28_Witness ==
    \E r \in ConcWorkers :
        LET t == task[r]
        IN  /\ t.pc = "done" /\ retries = 2
            /\ t.attempts = << [sent |-> TRUE, ok |-> FALSE], [sent |-> FALSE, ok |-> TRUE] >>
            /\ Len(t.qlog) = 2
            /\ t.qlog[1].src = "override" /\ t.qlog[2].src = "cache"
            /\ t.response.status = 200
            /\ Len(t.response.body.answers) = 1 + Len(t.qlog[2].recs)
            /\ \E o \in ConcWorkers : o # r /\ task[o].pc # "idle"

\* C29: whatever created_ts and ttl the metadata of a cached entry hold
\* and whatever the reader's clock shows, a created_ts later than the
\* clock included, the lookup does not panic and the record it returns
\* has a TTL between 0 and the TTL the entry was stored with.
C29_ResidualBounds ==
    \A r \in Workers :
        LET t == task[r]
        IN  /\ t.panic_why # "attempt to subtract with overflow"
            /\ (IsSome(t.last_get) /\ IsSome(Unwrap(t.last_get).rec)) =>
                   Unwrap(Unwrap(t.last_get).rec).ttl \in 0..Unwrap(t.last_get).put_ttl

=============================================================================
